---- MODULE Spec2Model ----
(***************************************************************************)
(* Model of the TOTP approval window manager (infra/totp/totp-session.ts),  *)
(* of the trust gate that waits on it (infra/outbound/trust-gate.ts), of   *)
(* the rate limiter (infra/outbound/rate-limiter.ts), of the audit log     *)
(* (infra/outbound/audit-log.ts), of the vault of the protected document,  *)
(* of the TOTP secret store (infra/totp/totp-setup.ts), of the TOTP codes  *)
(* (infra/totp/totp.ts), of the code command and of the integrity check    *)
(* of the protected document (agents/soul-integrity.ts,                    *)
(* agents/bootstrap-files.ts).                                             *)
(*                                                                         *)
(* Time is the value Date.now() returns, in milliseconds.  The clock moves *)
(* in steps of one minute, the unit of durationMinutes.  A timer set by    *)
(* setTimeout fires at or after its deadline, never before.                *)
(***************************************************************************)
EXTENDS Integers, Sequences, FiniteSets, TLC

\* ---------------------------------------------------------------- bounds
MaxTicks == 2
MaxWaiters == 2
MaxDurationMinutes == 1
MaxRequests == 2
MaxRecords == 3
MaxLines == 3

\* ------------------------------------------------------------- constants
\* durationMinutes * 60 * 1000
MsPerMinute == 60 * 1000

DEFAULT_TOTP_WAIT_MS == 120000

\* params.actions ?? ["message.send"]
DefaultActions == {"message.send"}

\* params.channel ?? "all"
DefaultChannel == "all"

MaxNow == MaxTicks * MsPerMinute

\* ------------------------------------------------ optional values (T | null)
Null == {}
Some(x) == {x}
Val(o) == CHOOSE x \in o : TRUE
OrElse(o, d) == IF o = Null THEN d ELSE Val(o)

Range(s) == {s[i] : i \in DOMAIN s}

\* ---------------------------------------------------------------- inputs
ActionNames == {"message.send", "exec.run"}
ActionsInputs == {Null, Some({"exec.run"}), Some(ActionNames)}
ChannelInputs == {Some("telegram")}
AccountInputs == {Null}
DurationInputs == 0..MaxDurationMinutes
TimeoutInputs == {MsPerMinute}

\* cfg.agents?.defaults: each field is present or absent
CfgInputs ==
  [trustLevel : {Null, Some(0), Some(1)},
   requireApproval : {Null, Some({"exec.run"})},
   approvalMode : {Null, Some("totp")},
   totpWindowMinutes : {Null}]

\* A message content is known by its identity and its length in characters.
ParamsInputs ==
  [channel : {"telegram"},
   recipient : {"alice"},
   content : {[id |-> "m1", length |-> 101]},
   sessionId : {Null, Some("s1")}]

\* what requestExecApprovalViaSocket can do: return a decision, return null
\* (timeout, no decision) or throw
SocketOutcomes == {"allow-once", "allow-always", "deny", "null", "throw"}

\* the callbacks a caller can register
CallbackInputs == {Null, Some("relay")}

\* ------------------------------------------------- inputs of the rate limiter
RecordChannelInputs == {"telegram"}
RateChannelInputs == {"telegram", "discord", "slack"}
AccountIdInputs == {Null, Some("a1")}
AccountIds == {"a1"}

\* params.now: absent (Date.now() is used) or given by the caller
NowInputs == {Null, Some(60000), Some(3600000), Some(3660000)}

LimitInputs == {Null, Some(2)}

\* the rate limit fields of an account and of a channel; accounts[id] = Null
\* when the channel has no entry for the account
AccountCfgInputs ==
  [maxMessagesPerMinute : {Null, Some(1)},
   maxMessagesPerHour : {Null, Some(3)},
   rateLimitOverflow : {Null, Some("queue")}]

ChannelCfgInputs ==
  [maxMessagesPerMinute : {Null, Some(2)},
   maxMessagesPerHour : {Null, Some(2)},
   rateLimitOverflow : {Null, Some("drop")},
   accounts : [AccountIds -> {Null} \cup {Some(a) : a \in AccountCfgInputs}]]

\* cfg.channels: absent, or every channel configured alike or not at all
RateCfgInputs ==
  {[channels |-> Null]} \cup
  {[channels |-> Some([c \in RateChannelInputs |-> ch])] :
     ch \in {Null} \cup {Some(x) : x \in ChannelCfgInputs}}

ChannelOnlyCfgInputs ==
  {cfg \in RateCfgInputs :
     /\ cfg.channels # Null
     /\ Val(cfg.channels)["telegram"] # Null
     /\ Val(Val(cfg.channels)["telegram"]).accounts["a1"] = Null
     /\ Val(Val(cfg.channels)["telegram"]).maxMessagesPerMinute # Null}

\* ---------------------------------------------------- inputs of the audit log
AuditEntryInputs ==
  [timestamp : {0},
   targetChannel : {"telegram"},
   recipient : {"alice"},
   messageContent : {[id |-> "m1", length |-> 10000], [id |-> "m2", length |-> 10001]},
   blocked : {TRUE},
   blockReason : {Some("rate_limit")},
   sessionId : {Null, Some("s1")}]

\* the parameters of logOutboundAudit; an absent blockReason or sessionId is Null
AuditParamsInputs ==
  [channel : {"telegram"},
   recipient : {"alice"},
   content : {[id |-> "m3", length |-> 101]},
   blocked : {FALSE},
   blockReason : {Null},
   sessionId : {Null}]

\* what outbound-audit.jsonl holds when the process starts
EarlierContentInputs ==
  {<<>>,
   <<[timestamp |-> 0, targetChannel |-> "whatsapp", recipient |-> "bob",
      messageContent |-> [id |-> "m0", length |-> 5], blocked |-> FALSE,
      blockReason |-> Null, sessionId |-> Null]>>}

\* lastOp is a record of the operation performed last: its name (op), its
\* arguments, what it returned, and what it found when it was called (queued:
\* the pending array at the call; expired: the read discarded an expired
\* window; dropped, shortened: how the new window compares with the one replaced;
\* opened, wrote: the append opened the file, wrote its line; raised: it ended
\* with an exception; afterFailedOpen: the call before it was an append that
\* could not open the file).
\* ---- vault and secret store
MaxChars == 2

\* ---- sending flows that run at the same time
MaxFlows == 2

\* ---- TOTP codes called directly: time steps, steps of tolerance
MaxSteps == 3

MaxWindow == 1

CodeUnits == {"a", "H", "L"}

\* every string of at most MaxChars code units
PlaintextInputs == UNION {[1..n -> CodeUnits] : n \in 0..MaxChars}

PassphraseInputs == {"p1", "p2"}

SaltInputs == {<<"s1">>, <<"s2">>}

IvInputs == {<<"i1">>, <<"i2">>}

BlobParts == {"salt", "iv", "authTag", "ciphertext", "short"}

PlaintextPath == "SOUL.md"

EncPath == "vault/SOUL.md.enc"

ShmPath == "/dev/shm/openclaw-soul-pid/SOUL.md"

SecretPath == "totp/totp-secret.enc"

SecretPlaintextPath == "totp/totp-secret.txt"

FilePaths == {PlaintextPath, EncPath, ShmPath, SecretPath, SecretPlaintextPath}

\* secrets: base32 letters, with a space before or behind, an unpaired surrogate
SecretInputs == {<<"a">>, <<"a", "a">>, <<" ", "a">>, <<"a", " ">>, <<"H">>}

\* the values of OPENCLAW_VAULT_PASSPHRASE: unset, blank, and two passphrases
EnvInputs == {Null, Some(" "), Some("p1"), Some("p2")}

SoulInputs == {<<"a">>, <<"a", "a">>}

\* /dev/shm is missing, or the mirror write fails, or it succeeds
ShmOutcomes == {"none", "fails", "ok"}

\* the erase of the plaintext source: done, or the overwrite fails, or the unlink
EraseOutcomes == {"ok", "overwriteFails", "unlinkFails"}

\* wipeAndDelete: done, or the overwrite fails and the unlink works, or the
\* overwrite works and the unlink fails, or both fail
WipeOutcomes == {"ok", "overwriteFails", "unlinkFails", "allFail"}

ProcessEvents == {"exit", "SIGINT", "SIGTERM"}

\* the salt and the iv that randomBytes returns in the vault
VaultSaltInputs == {<<"s1">>}

VaultIvInputs == {<<"i1">>}

\* the secret that generateTotpSecret returns
Base32SecretInputs == {<<"a">>}

\* the messages sent as codes: the codes of the enrolled key and of another
\* key for the time step of the start of the clock and the second step
\* behind it, six digits that are no code of
\* either, five digits, six letters; one code with white space around it
CodeInputs ==
  {[length |-> 6, digits |-> TRUE, padded |-> FALSE, of |-> <<k, c>>] :
     k \in {<<"a">>, <<"a", "a">>}, c \in {2, 4}}
  \cup {[length |-> 6, digits |-> TRUE, padded |-> TRUE, of |-> <<<<"a">>, 2>>],
        [length |-> 6, digits |-> TRUE, padded |-> FALSE, of |-> <<<<>>, 0>>],
        [length |-> 5, digits |-> TRUE, padded |-> FALSE, of |-> <<<<>>, 0>>],
        [length |-> 6, digits |-> FALSE, padded |-> FALSE, of |-> <<<<>>, 0>>]}

\* cfg.agents?.defaults as handleTotpCodeInput reads it
CodeCfgInputs ==
  [trustLevel : {Null}, requireApproval : {Null},
   approvalMode : {Null, Some("totp")}, totpWindowMinutes : {Null, Some(1)}]

\* the calls of handleTotpCodeInput: every message from an authorized sender
\* under approvalMode "totp", and the code of the enrolled key with text
\* commands off, from another sender, or under another approvalMode
CodeCallInputs ==
  {c \in [body : CodeInputs, allowTextCommands : BOOLEAN,
          isAuthorizedSender : BOOLEAN, cfg : CodeCfgInputs] :
     \/ c.allowTextCommands /\ c.isAuthorizedSender /\ c.cfg.approvalMode # Null
     \/ /\ c.body = [length |-> 6, digits |-> TRUE, padded |-> FALSE,
                     of |-> <<<<"a">>, 2>>]
        /\ c.cfg.totpWindowMinutes = Null
        /\ \/ ~c.allowTextCommands /\ c.isAuthorizedSender /\ c.cfg.approvalMode # Null
           \/ c.allowTextCommands /\ ~c.isAuthorizedSender /\ c.cfg.approvalMode # Null
           \/ c.allowTextCommands /\ c.isAuthorizedSender /\ c.cfg.approvalMode = Null}

\* the messages sent as lock commands, in words: the command, the command in
\* other case with a word behind it, another message
LockBodyInputs == {<<"/totp-lock">>, <<"/TOTP-Lock", "now">>, <<"hello">>}

\* the calls of handleTotpLockCommand: every message from an authorized sender
\* with text commands on, and the command from another sender or with text
\* commands off
LockCallInputs ==
  {c \in [body : LockBodyInputs, allowTextCommands : BOOLEAN, isAuthorizedSender : BOOLEAN] :
     \/ c.allowTextCommands /\ c.isAuthorizedSender
     \/ c.body = <<"/totp-lock">> /\ (c.allowTextCommands \/ c.isAuthorizedSender)}

\* workspace directories: two, one of them also written with a space, and blank
WorkspaceInputs == {<<"a">>, <<" ", "a">>, <<"a", "a">>, <<" ">>}

SoulContentInputs == {<<>>, <<"a">>, <<"a", "a">>}

\* the entry of SOUL.md: none, a missing file, a file read with its content
SoulFileInputs ==
  {Null, Some([missing |-> TRUE, content |-> Null])}
  \cup {Some([missing |-> FALSE, content |-> Some(c)]) : c \in SoulContentInputs}

\* ---- watch transcript
MAX_BODY_LENGTH == 100000

\* A text is lead ordinary characters followed by the characters of rest:
\* "a" an ordinary character, "c" a control character of CONTROL_CHAR_PATTERN,
\* "n" a line feed, "e" the two characters that JSON writes for a line feed.
Text(lead, rest) == [lead |-> lead, rest |-> rest]

EmptyText == Text(0, <<>>)

\* the account ids: one that is safe as it is, two that differ in a character
\* outside [a-zA-Z0-9_-]
WatchAccountInputs == {<<"a">>, <<"a", ".", "a">>, <<"a", "_", "a">>}

\* accountId.replace(/[^a-zA-Z0-9_-]/g, "_")
SafeAccountId(accountId) ==
  [i \in DOMAIN accountId |-> IF accountId[i] \in {"a", "_", "-"} THEN accountId[i] ELSE "_"]

\* resolveTranscriptPath without the directory: whatsapp-watch-<safe id>.jsonl
TranscriptFile(accountId) == <<"whatsapp-watch-", SafeAccountId(accountId), ".jsonl">>

TranscriptFiles == {TranscriptFile(a) : a \in WatchAccountInputs}

DefaultEntry ==
  [messageId |-> Some("msg001"), channel |-> "whatsapp", chatType |-> "direct",
   chatName |-> Null, senderName |-> Null, senderNumber |-> Some("+1555"),
   timestamp |-> "2025-01-15T12:00:00.000Z", body |-> Text(0, <<"a">>),
   mediaType |-> Null, quotedMessage |-> Null, isFromMe |-> FALSE]

\* the entries: a plain body; a body with a control character and a line
\* feed; a body one character longer than MAX_BODY_LENGTH that ends in a
\* control character; a body one character longer than MAX_BODY_LENGTH with
\* a control character before the cut; names that are empty, or only a
\* control character;
\* names and a quoted message with control characters; another channel
WatchEntryInputs ==
  {DefaultEntry,
   [DefaultEntry EXCEPT !.body = Text(0, <<"a", "c", "n", "a">>)],
   [DefaultEntry EXCEPT !.body = Text(MAX_BODY_LENGTH - 1, <<"a", "c">>)],
   [DefaultEntry EXCEPT !.body = Text(MAX_BODY_LENGTH - 2, <<"c", "a", "a">>)],
   [DefaultEntry EXCEPT !.chatName = Some(EmptyText),
                        !.senderName = Some(Text(0, <<"c">>))],
   [DefaultEntry EXCEPT !.chatName = Some(Text(0, <<"a", "c">>)),
                        !.quotedMessage = Some(Text(0, <<"c", "a">>)),
                        !.chatType = "group", !.isFromMe = TRUE],
   [DefaultEntry EXCEPT !.channel = "telegram", !.messageId = Null]}

\* what the file system does to the call: the line is appended; mkdirSync
\* throws; appendFileSync throws and nothing is written
WatchOutcomes == {"written", "mkdirFails", "appendFails"}

VARIABLES
  now,               \* Date.now()
  activeWindow,      \* ApprovalWindow | null
  entries,           \* every PendingResolver object created so far, by index
  pendingResolvers,  \* the array pendingResolvers, as indices into entries
  lastOp,            \* the operation performed last, its arguments and result
  requests,          \* the calls of requestMessageSendApproval and where each stands
  onTotpPromptCallback,  \* TotpPromptCallback | null
  prompts,           \* the messages handed to the prompt callback, in order
  auditCalls,        \* the calls of logOutboundAudit, in order
  buckets,           \* the Map buckets: BucketKey -> number[]
  auditFd,           \* the cached file descriptor | null
  auditFile,         \* the lines of outbound-audit.jsonl, in file order
  env,               \* the value of the passphrase environment variable | undefined
  files,             \* the content of each file of the vault and the secret store | absent
  decryptedSoulContent,     \* string | null
  shmCleanupPath,           \* string | null
  shutdownHooksRegistered,  \* boolean
  listeners,         \* the listeners registered with process.on, per event
  soulCall,          \* the decryptSoulToMemory call waiting for its mirror write | none
  storedSoulHashes,  \* the Map storedSoulHashes: workspace key -> hash
  transcripts,       \* the lines of each watch transcript file, in file order
  acceptedCodes,     \* history: the codes that handleTotpCodeInput has accepted
  lastSaved,         \* history: the secret of the last saveTotpSecret that wrote | none
  flows              \* where each sending flow stands: "idle", or "allowed" and sending

gateVars == <<requests, onTotpPromptCallback, prompts, auditCalls>>
limiterVars == <<buckets>>
auditVars == <<auditFd, auditFile>>
vaultVars == <<env, files, decryptedSoulContent, shmCleanupPath,
               shutdownHooksRegistered, listeners, soulCall>>
soulVars == <<storedSoulHashes>>
watchVars == <<transcripts>>
historyVars == <<acceptedCodes, lastSaved>>
flowVars == <<flows>>
vars == <<now, activeWindow, entries, pendingResolvers, lastOp,
          requests, onTotpPromptCallback, prompts, auditCalls,
          buckets, auditFd, auditFile,
          env, files, decryptedSoulContent, shmCleanupPath,
          shutdownHooksRegistered, listeners, soulCall, storedSoulHashes,
          transcripts, acceptedCodes, lastSaved, flows>>

\* ------------------------------------------------------------ settleResolver
\* settleResolver without its guard and without clearTimeout
SettleResolverUnguarded(entry, approved) ==
  [entry EXCEPT !.calls = Append(@, approved)]

\* settleResolver without clearTimeout
SettleResolverKeepsTimer(entry, approved) ==
  IF entry.settled
    THEN entry
    ELSE [entry EXCEPT !.settled = TRUE, !.calls = Append(@, approved)]

SettleResolver(entry, approved) ==
  IF entry.settled
    THEN entry
    ELSE [entry EXCEPT !.settled = TRUE,
                       !.timer = IF @ = "armed" THEN "cleared" ELSE @,
                       !.calls = Append(@, approved)]

\* drainAllResolvers: the entries after the loop; the array is emptied
DrainAllResolvers(approved) ==
  [i \in DOMAIN entries |->
     IF i \in Range(pendingResolvers)
       THEN SettleResolver(entries[i], approved)
       ELSE entries[i]]

\* ------------------------------------------------------- isApprovalWindowActive
\* isApprovalWindowActive comparing with > where the code has >=
IsApprovalWindowActiveRetStrict ==
  IF activeWindow = Null
    THEN FALSE
    ELSE IF now > Val(activeWindow).expiresAt THEN FALSE ELSE TRUE

IsApprovalWindowActiveRet ==
  IF activeWindow = Null
    THEN FALSE
    ELSE IF now >= Val(activeWindow).expiresAt THEN FALSE ELSE TRUE

\* activeWindow after isApprovalWindowActive has run (lazy expiry)
WindowAfterRead ==
  IF activeWindow # Null /\ now >= Val(activeWindow).expiresAt
    THEN Null
    ELSE activeWindow

IsActionApprovedRet(action) ==
  IF ~IsApprovalWindowActiveRet
    THEN FALSE
    ELSE action \in Val(activeWindow).approvedActions

\* ------------------------------------------------------------------ actions
\* startApprovalWindow that adds to the window it finds instead of replacing it
StartApprovalWindowMerging(durationMinutes, actions, channel, accountId) ==
  LET durationMs == durationMinutes * MsPerMinute
      expiresAt == now + durationMs
      win == [expiresAt |-> expiresAt,
              approvedActions |-> OrElse(actions, DefaultActions) \cup
                                    (IF activeWindow = Null THEN {}
                                     ELSE Val(activeWindow).approvedActions),
              channel |-> OrElse(channel, DefaultChannel),
              accountId |-> accountId]
      matches(i) == entries[i].action \in win.approvedActions
  IN /\ activeWindow' = Some(win)
     /\ entries' = [i \in DOMAIN entries |->
                      IF i \in Range(pendingResolvers) /\ matches(i)
                        THEN SettleResolver(entries[i], TRUE)
                        ELSE entries[i]]
     /\ pendingResolvers' = SelectSeq(pendingResolvers, LAMBDA i : ~matches(i))
     /\ lastOp' = [op |-> "startApprovalWindow",
                   durationMinutes |-> durationMinutes,
                   actions |-> actions,
                   queued |-> pendingResolvers,
                   dropped |-> /\ activeWindow # Null
                               /\ Val(activeWindow).approvedActions
                                    \ OrElse(actions, DefaultActions) # {},
                   shortened |-> /\ activeWindow # Null
                                 /\ expiresAt < Val(activeWindow).expiresAt]
     /\ UNCHANGED <<now, gateVars, limiterVars, auditVars, vaultVars, soulVars, watchVars, historyVars, flowVars>>

\* startApprovalWindow whose release loop stops at the first matching entry
StartApprovalWindowFirstOnly(durationMinutes, actions, channel, accountId) ==
  LET durationMs == durationMinutes * MsPerMinute
      expiresAt == now + durationMs
      win == [expiresAt |-> expiresAt,
              approvedActions |-> OrElse(actions, DefaultActions),
              channel |-> OrElse(channel, DefaultChannel),
              accountId |-> accountId]
      matches(i) == entries[i].action \in win.approvedActions
      hits == {k \in DOMAIN pendingResolvers : matches(pendingResolvers[k])}
      first == IF hits = {} THEN 0
               ELSE pendingResolvers[CHOOSE k \in hits : \A j \in hits : k <= j]
  IN /\ activeWindow' = Some(win)
     /\ entries' = [i \in DOMAIN entries |->
                      IF i = first THEN SettleResolver(entries[i], TRUE) ELSE entries[i]]
     /\ pendingResolvers' = SelectSeq(pendingResolvers, LAMBDA i : i # first)
     /\ lastOp' = [op |-> "startApprovalWindow",
                   durationMinutes |-> durationMinutes,
                   actions |-> actions,
                   queued |-> pendingResolvers,
                   dropped |-> /\ activeWindow # Null
                               /\ Val(activeWindow).approvedActions \ win.approvedActions # {},
                   shortened |-> /\ activeWindow # Null
                                 /\ expiresAt < Val(activeWindow).expiresAt]
     /\ UNCHANGED <<now, gateVars, limiterVars, auditVars, vaultVars, soulVars, watchVars, historyVars, flowVars>>

StartApprovalWindow(durationMinutes, actions, channel, accountId) ==
  LET durationMs == durationMinutes * MsPerMinute
      expiresAt == now + durationMs
      win == [expiresAt |-> expiresAt,
              approvedActions |-> OrElse(actions, DefaultActions),
              channel |-> OrElse(channel, DefaultChannel),
              accountId |-> accountId]
      matches(i) == entries[i].action \in win.approvedActions
  IN /\ activeWindow' = Some(win)
     /\ entries' = [i \in DOMAIN entries |->
                      IF i \in Range(pendingResolvers) /\ matches(i)
                        THEN SettleResolver(entries[i], TRUE)
                        ELSE entries[i]]
     /\ pendingResolvers' = SelectSeq(pendingResolvers, LAMBDA i : ~matches(i))
     /\ lastOp' = [op |-> "startApprovalWindow",
                   durationMinutes |-> durationMinutes,
                   actions |-> actions,
                   queued |-> pendingResolvers,
                   dropped |-> /\ activeWindow # Null
                               /\ Val(activeWindow).approvedActions \ win.approvedActions # {},
                   shortened |-> /\ activeWindow # Null
                                 /\ expiresAt < Val(activeWindow).expiresAt]
     /\ UNCHANGED <<now, gateVars, limiterVars, auditVars, vaultVars, soulVars, watchVars, historyVars, flowVars>>

IsApprovalWindowActive ==
  /\ activeWindow' = WindowAfterRead
  /\ lastOp' = [op |-> "isApprovalWindowActive", ret |-> IsApprovalWindowActiveRet,
                expired |-> activeWindow # WindowAfterRead]
  /\ UNCHANGED <<now, entries, pendingResolvers, gateVars, limiterVars, auditVars, vaultVars, soulVars, watchVars, historyVars, flowVars>>

\* isActionApproved whose expiry goes through closeApprovalWindow
IsActionApprovedClosingOnExpiry(action) ==
  /\ activeWindow' = WindowAfterRead
  /\ entries' = IF activeWindow # WindowAfterRead THEN DrainAllResolvers(FALSE) ELSE entries
  /\ pendingResolvers' = IF activeWindow # WindowAfterRead THEN <<>> ELSE pendingResolvers
  /\ lastOp' = [op |-> "isActionApproved", action |-> action,
                ret |-> IsActionApprovedRet(action),
                expired |-> activeWindow # WindowAfterRead]
  /\ UNCHANGED <<now, gateVars, limiterVars, auditVars, vaultVars, soulVars, watchVars, historyVars, flowVars>>

IsActionApproved(action) ==
  /\ activeWindow' = WindowAfterRead
  /\ lastOp' = [op |-> "isActionApproved", action |-> action,
                ret |-> IsActionApprovedRet(action),
                expired |-> activeWindow # WindowAfterRead]
  /\ UNCHANGED <<now, entries, pendingResolvers, gateVars, limiterVars, auditVars, vaultVars, soulVars, watchVars, historyVars, flowVars>>

\* closeApprovalWindow that denies the waiters only when a window was open
CloseApprovalWindowOnlyIfOpen ==
  /\ activeWindow' = Null
  /\ entries' = IF activeWindow # Null THEN DrainAllResolvers(FALSE) ELSE entries
  /\ pendingResolvers' = IF activeWindow # Null THEN <<>> ELSE pendingResolvers
  /\ lastOp' = [op |-> "closeApprovalWindow", queued |-> pendingResolvers]
  /\ UNCHANGED <<now, gateVars, limiterVars, auditVars, vaultVars, soulVars, watchVars, historyVars, flowVars>>

CloseApprovalWindow ==
  /\ activeWindow' = Null
  /\ entries' = DrainAllResolvers(FALSE)
  /\ pendingResolvers' = <<>>
  /\ lastOp' = [op |-> "closeApprovalWindow", queued |-> pendingResolvers]
  /\ UNCHANGED <<now, gateVars, limiterVars, auditVars, vaultVars, soulVars, watchVars, historyVars, flowVars>>

\* waitForApprovalWindow without its early return
CallWaitForApprovalWindowAlwaysQueues(action, timeoutMs, promise) ==
  /\ Len(entries) < MaxWaiters
  /\ now + timeoutMs <= MaxNow
  /\ promise = Len(entries) + 1
  /\ activeWindow' = WindowAfterRead
  /\ entries' = Append(entries, [action |-> action,
                                 settled |-> FALSE,
                                 timer |-> "armed",
                                 deadline |-> now + timeoutMs,
                                 calls |-> <<>>])
  /\ pendingResolvers' = Append(pendingResolvers, Len(entries) + 1)

\* The body of waitForApprovalWindow, run on a window on which the caller may
\* already have performed a read.  The promise it returns: 0 is
\* Promise.resolve(true), w > 0 is the promise that entries[w].resolve settles.
CallWaitForApprovalWindow(action, timeoutMs, promise) ==
  IF IsActionApprovedRet(action)
    THEN /\ promise = 0
         /\ activeWindow' = WindowAfterRead
         /\ UNCHANGED <<entries, pendingResolvers>>
    ELSE /\ Len(entries) < MaxWaiters
         /\ now + timeoutMs <= MaxNow
         /\ promise = Len(entries) + 1
         /\ activeWindow' = WindowAfterRead
         /\ entries' = Append(entries, [action |-> action,
                                        settled |-> FALSE,
                                        timer |-> "armed",
                                        deadline |-> now + timeoutMs,
                                        calls |-> <<>>])
         /\ pendingResolvers' = Append(pendingResolvers, Len(entries) + 1)

WaitForApprovalWindow(action, timeoutMs) ==
  \E promise \in 0..MaxWaiters :
    /\ CallWaitForApprovalWindow(action, timeoutMs, promise)
    /\ lastOp' = [op |-> "waitForApprovalWindow", action |-> action, promise |-> promise]
    /\ UNCHANGED <<now, gateVars, limiterVars, auditVars, vaultVars, soulVars, watchVars, historyVars, flowVars>>

\* a deadline callback that removes the entry from the array without settling it
DeadlineFiresWithoutSettling(w) ==
  /\ w \in DOMAIN entries
  /\ entries[w].timer = "armed"
  /\ now >= entries[w].deadline
  /\ entries' = [entries EXCEPT ![w] = [@ EXCEPT !.timer = "fired"]]
  /\ pendingResolvers' = SelectSeq(pendingResolvers, LAMBDA i : i # w)
  /\ lastOp' = [op |-> "deadline", waiter |-> w]
  /\ UNCHANGED <<now, activeWindow, gateVars, limiterVars, auditVars, vaultVars, soulVars, watchVars, historyVars, flowVars>>

\* the setTimeout callback of entry w
DeadlineFires(w) ==
  /\ w \in DOMAIN entries
  /\ entries[w].timer = "armed"
  /\ now >= entries[w].deadline
  /\ entries' = [entries EXCEPT ![w] = SettleResolver([@ EXCEPT !.timer = "fired"], FALSE)]
  /\ pendingResolvers' = SelectSeq(pendingResolvers, LAMBDA i : i # w)
  /\ lastOp' = [op |-> "deadline", waiter |-> w]
  /\ UNCHANGED <<now, activeWindow, gateVars, limiterVars, auditVars, vaultVars, soulVars, watchVars, historyVars, flowVars>>

\* ---------------------------------------------------------------- trust gate
DEFAULT_REQUIRE_APPROVAL == {"message.send"}

ResolveTrustLevel(cfg) == OrElse(cfg.trustLevel, 0)

ResolveRequireApproval(cfg) == OrElse(cfg.requireApproval, DEFAULT_REQUIRE_APPROVAL)

ResolveApprovalMode(cfg) == OrElse(cfg.approvalMode, "socket")

ResolveTotpWindowMinutes(cfg) == OrElse(cfg.totpWindowMinutes, 5)

\* shouldInterceptAction without its trust level test
ShouldInterceptActionIgnoringTrust(cfg, action) ==
  action \in ResolveRequireApproval(cfg)

ShouldInterceptAction(cfg, action) ==
  IF ResolveTrustLevel(cfg) < 1
    THEN FALSE
    ELSE action \in ResolveRequireApproval(cfg)

\* TrustGateResult; an absent field is "undefined", FALSE or Null
TrustGateResult(allowed, decision, pendingTotp, promptMessage) ==
  [allowed |-> allowed, decision |-> decision,
   pendingTotp |-> pendingTotp, promptMessage |-> promptMessage]

IdleRequest ==
  [pc |-> "idle", params |-> Null, promise |-> 0, promptResult |-> Null, result |-> Null]

Returned(req, result) ==
  [req EXCEPT !.pc = "done", !.result = Some(result)]

\* the denial audited with the prompt's preview in place of the content
DeniedAuditWithPreview(p) ==
  [channel |-> p.channel, recipient |-> p.recipient,
   content |-> [id |-> p.content.id,
                length |-> IF p.content.length > 100 THEN 100 ELSE p.content.length],
   blocked |-> TRUE, blockReason |-> "trust_gate", sessionId |-> p.sessionId]

\* the argument of the logOutboundAudit call made on a denial
DeniedAudit(p) ==
  [channel |-> p.channel, recipient |-> p.recipient, content |-> p.content,
   blocked |-> TRUE, blockReason |-> "trust_gate", sessionId |-> p.sessionId]

\* content.length > 100 ? content.slice(0, 100) + "..." : content
ContentPreview(content) ==
  IF content.length > 100
    THEN [id |-> content.id, length |-> 100, ellipsis |-> TRUE]
    ELSE [id |-> content.id, length |-> content.length, ellipsis |-> FALSE]

PromptMessage(p, windowMinutes) ==
  [channel |-> p.channel, recipient |-> p.recipient,
   preview |-> ContentPreview(p.content), windowMinutes |-> windowMinutes]

\* emitPromptBeforeWait calling the callback twice
EmitPromptBeforeWaitTwice(message) ==
  IF onTotpPromptCallback # Null
    THEN prompts \o
           << [callback |-> Val(onTotpPromptCallback), message |-> message,
               waitersAtCall |-> Len(entries)],
              [callback |-> Val(onTotpPromptCallback), message |-> message,
               waitersAtCall |-> Len(entries)] >>
    ELSE prompts

\* emitPromptBeforeWait: a callback that throws has still been called.
\* waitersAtCall is the number of PendingResolver objects that exist when the
\* callback is called.
EmitPromptBeforeWait(message) ==
  IF onTotpPromptCallback # Null
    THEN Append(prompts, [callback |-> Val(onTotpPromptCallback), message |-> message,
                          waitersAtCall |-> Len(entries)])
    ELSE prompts

SetTotpPromptCallback(cb) ==
  /\ onTotpPromptCallback' = cb
  /\ lastOp' = [op |-> "setTotpPromptCallback"]
  /\ UNCHANGED <<now, activeWindow, entries, pendingResolvers, requests, prompts, auditCalls,
               limiterVars, auditVars, vaultVars, soulVars, watchVars, historyVars, flowVars>>

\* requestApprovalViaTotp without its first isActionApproved test: it always
\* prompts and calls waitForApprovalWindow
RequestApprovalViaTotpAlwaysWaiting(r, cfg, p) ==
  LET windowMinutes == ResolveTotpWindowMinutes(cfg)
      promptMessage == PromptMessage(p, windowMinutes)
      promptResult == TrustGateResult(FALSE, "null", TRUE, Some(promptMessage))
  IN \E promise \in 0..MaxWaiters :
       /\ prompts' = EmitPromptBeforeWait(promptMessage)
       /\ CallWaitForApprovalWindow("message.send", DEFAULT_TOTP_WAIT_MS, promise)
       /\ requests' = [requests EXCEPT ![r] =
            [pc |-> "awaitTotp", params |-> Some(p), promise |-> promise,
             promptResult |-> Some(promptResult), result |-> Null]]
       /\ UNCHANGED auditCalls

\* requestApprovalViaTotp up to its await.  waitForApprovalWindow repeats the
\* read isActionApproved("message.send") the function starts with; the second
\* read sees the window the first one left and returns the same.
RequestApprovalViaTotp(r, cfg, p) ==
  LET windowMinutes == ResolveTotpWindowMinutes(cfg)
      promptMessage == PromptMessage(p, windowMinutes)
      promptResult == TrustGateResult(FALSE, "null", TRUE, Some(promptMessage))
  IN IF IsActionApprovedRet("message.send")
       THEN /\ activeWindow' = WindowAfterRead
            /\ requests' = [requests EXCEPT ![r] =
                 Returned([@ EXCEPT !.params = Some(p)],
                          TrustGateResult(TRUE, "allow-once", FALSE, Null))]
            /\ UNCHANGED <<entries, pendingResolvers, prompts, auditCalls>>
       ELSE \E promise \in 0..MaxWaiters :
            /\ prompts' = EmitPromptBeforeWait(promptMessage)
            /\ CallWaitForApprovalWindow("message.send", DEFAULT_TOTP_WAIT_MS, promise)
            /\ requests' = [requests EXCEPT ![r] =
                 [pc |-> "awaitTotp", params |-> Some(p), promise |-> promise,
                  promptResult |-> Some(promptResult), result |-> Null]]
            /\ UNCHANGED auditCalls

\* requestApprovalViaSocket up to its await; resolveExecApprovals may throw
RequestApprovalViaSocket(r, cfg, p) ==
  \E resolveThrows \in BOOLEAN :
    IF resolveThrows
      THEN /\ auditCalls' = Append(auditCalls, DeniedAudit(p))
           /\ requests' = [requests EXCEPT ![r] =
                Returned([@ EXCEPT !.params = Some(p)],
                         TrustGateResult(FALSE, "null", FALSE, Null))]
           /\ UNCHANGED <<activeWindow, entries, pendingResolvers, prompts>>
      ELSE /\ requests' = [requests EXCEPT ![r] =
                [@ EXCEPT !.pc = "awaitSocket", !.params = Some(p)]]
           /\ UNCHANGED <<activeWindow, entries, pendingResolvers, prompts, auditCalls>>

RequestMessageSendApproval(r, cfg, p) ==
  /\ requests[r].pc = "idle"
  /\ \A q \in 1..(r - 1) : requests[q].pc # "idle"
  /\ IF ~ShouldInterceptAction(cfg, "message.send")
       THEN /\ requests' = [requests EXCEPT ![r] =
                 Returned([@ EXCEPT !.params = Some(p)],
                          TrustGateResult(TRUE, "undefined", FALSE, Null))]
            /\ UNCHANGED <<activeWindow, entries, pendingResolvers, prompts, auditCalls>>
       ELSE IF ResolveApprovalMode(cfg) = "totp"
              THEN RequestApprovalViaTotp(r, cfg, p)
              ELSE RequestApprovalViaSocket(r, cfg, p)
  /\ lastOp' = [op |-> "requestMessageSendApproval", request |-> r, cfg |-> cfg]
  /\ UNCHANGED <<now, onTotpPromptCallback,
               limiterVars, auditVars, vaultVars, soulVars, watchVars, historyVars, flowVars>>

PromiseSettled(promise) ==
  promise = 0 \/ entries[promise].calls # <<>>

PromiseValue(promise) ==
  IF promise = 0 THEN TRUE ELSE Head(entries[promise].calls)

\* requestApprovalViaTotp from its await on: the continuation runs once the
\* awaited promise is settled, after whatever else was scheduled before it
ResumeTotp(r) ==
  /\ requests[r].pc = "awaitTotp"
  /\ PromiseSettled(requests[r].promise)
  /\ LET approved == PromiseValue(requests[r].promise)
         p == Val(requests[r].params)
     IN IF approved
          THEN /\ requests' = [requests EXCEPT ![r] =
                    Returned(@, TrustGateResult(TRUE, "allow-once", FALSE, Null))]
               /\ UNCHANGED auditCalls
          ELSE /\ auditCalls' = Append(auditCalls, DeniedAudit(p))
               /\ requests' = [requests EXCEPT ![r] =
                    Returned(@, Val(requests[r].promptResult))]
  /\ lastOp' = [op |-> "resumeTotp", request |-> r]
  /\ UNCHANGED <<now, activeWindow, entries, pendingResolvers, onTotpPromptCallback, prompts,
               limiterVars, auditVars, vaultVars, soulVars, watchVars, historyVars, flowVars>>

\* requestApprovalViaSocket without its catch clause: the rejection of the
\* awaited promise leaves the function as an exception
ResumeSocketUncaught(r, outcome) ==
  /\ requests[r].pc = "awaitSocket"
  /\ LET p == Val(requests[r].params)
     IN IF outcome \in {"allow-once", "allow-always"}
          THEN /\ requests' = [requests EXCEPT ![r] =
                    Returned(@, TrustGateResult(TRUE, outcome, FALSE, Null))]
               /\ UNCHANGED auditCalls
          ELSE IF outcome = "throw"
                 THEN /\ requests' = [requests EXCEPT ![r].pc = "thrown"]
                      /\ UNCHANGED auditCalls
                 ELSE /\ auditCalls' = Append(auditCalls, DeniedAudit(p))
                      /\ requests' = [requests EXCEPT ![r] =
                           Returned(@, TrustGateResult(FALSE, outcome, FALSE, Null))]
  /\ lastOp' = [op |-> "resumeSocket", request |-> r, outcome |-> outcome]
  /\ UNCHANGED <<now, activeWindow, entries, pendingResolvers, onTotpPromptCallback, prompts,
               limiterVars, auditVars, vaultVars, soulVars, watchVars, historyVars, flowVars>>

\* requestApprovalViaSocket from its await on
ResumeSocket(r, outcome) ==
  /\ requests[r].pc = "awaitSocket"
  /\ LET p == Val(requests[r].params)
     IN IF outcome \in {"allow-once", "allow-always"}
          THEN /\ requests' = [requests EXCEPT ![r] =
                    Returned(@, TrustGateResult(TRUE, outcome, FALSE, Null))]
               /\ UNCHANGED auditCalls
          ELSE /\ auditCalls' = Append(auditCalls, DeniedAudit(p))
               /\ requests' = [requests EXCEPT ![r] =
                    Returned(@, TrustGateResult(FALSE,
                                  IF outcome = "throw" THEN "null" ELSE outcome,
                                  FALSE, Null))]
  /\ lastOp' = [op |-> "resumeSocket", request |-> r, outcome |-> outcome]
  /\ UNCHANGED <<now, activeWindow, entries, pendingResolvers, onTotpPromptCallback, prompts,
               limiterVars, auditVars, vaultVars, soulVars, watchVars, historyVars, flowVars>>

\* ---------------------------------------------------------------- rate limiter
ONE_MINUTE_MS == 60000

ONE_HOUR_MS == 3600000

\* bucketKey: accountId ? `${channel}:${accountId}` : channel
BucketKey(channel, accountId) ==
  IF accountId # Null /\ Val(accountId) # ""
    THEN <<channel, Val(accountId)>>
    ELSE <<channel>>

\* buckets.get(key) ?? []
BucketsGet(key) == IF key \in DOMAIN buckets THEN buckets[key] ELSE <<>>

\* buckets.set(key, timestamps)
BucketsSet(key, timestamps) ==
  [k \in DOMAIN buckets \cup {key} |-> IF k = key THEN timestamps ELSE buckets[k]]

RECURSIVE PruneIndex(_, _, _)
\* the loop of pruneExpired: it stops at the first timestamp not below the cutoff
PruneIndex(timestamps, cutoff, i) ==
  IF i < Len(timestamps) /\ timestamps[i + 1] < cutoff
    THEN PruneIndex(timestamps, cutoff, i + 1)
    ELSE i

\* pruneExpired: timestamps.slice(i), or the array itself when i = 0
PruneExpired(timestamps, windowMs, t) ==
  LET i == PruneIndex(timestamps, t - windowMs, 0)
  IN IF i > 0 THEN SubSeq(timestamps, i + 1, Len(timestamps)) ELSE timestamps

\* RateLimitResult; the reason names the window, the counts and the bucket
RateLimitResult(allowed, reason) == [allowed |-> allowed, reason |-> reason]

\* checkRateLimit, t being params.now ?? Date.now()
CheckRateLimitRet(channel, accountId, maxPerMinute, maxPerHour, t) ==
  IF maxPerMinute = Null /\ maxPerHour = Null
    THEN RateLimitResult(TRUE, Null)
    ELSE LET key == BucketKey(channel, accountId)
             timestamps == PruneExpired(BucketsGet(key), ONE_HOUR_MS, t)
             minuteCutoff == t - ONE_MINUTE_MS
             countInMinute ==
               Cardinality({i \in DOMAIN timestamps : timestamps[i] >= minuteCutoff})
         IN IF maxPerMinute # Null /\ countInMinute >= Val(maxPerMinute)
              THEN RateLimitResult(FALSE,
                     Some([per |-> "minute", count |-> countInMinute,
                           limit |-> Val(maxPerMinute), key |-> key]))
              ELSE IF maxPerHour # Null /\ Len(timestamps) >= Val(maxPerHour)
                     THEN RateLimitResult(FALSE,
                            Some([per |-> "hour", count |-> Len(timestamps),
                                  limit |-> Val(maxPerHour), key |-> key]))
                     ELSE RateLimitResult(TRUE, Null)

\* checkRateLimit storing the pruned array back into the map
CheckRateLimitStoringPruned(channel, accountId, maxPerMinute, maxPerHour, nowArg) ==
  LET t == OrElse(nowArg, now)
      key == BucketKey(channel, accountId)
  IN /\ buckets' = IF maxPerMinute = Null /\ maxPerHour = Null
                     THEN buckets
                     ELSE BucketsSet(key, PruneExpired(BucketsGet(key), ONE_HOUR_MS, t))
     /\ lastOp' = [op |-> "checkRateLimit", channel |-> channel, accountId |-> accountId,
                   maxPerMinute |-> maxPerMinute, maxPerHour |-> maxPerHour, now |-> t,
                   ret |-> CheckRateLimitRet(channel, accountId, maxPerMinute, maxPerHour, t)]
     /\ UNCHANGED <<now, activeWindow, entries, pendingResolvers, gateVars, auditVars, vaultVars, soulVars, watchVars, historyVars, flowVars>>

CheckRateLimit(channel, accountId, maxPerMinute, maxPerHour, nowArg) ==
  LET t == OrElse(nowArg, now)
  IN /\ lastOp' = [op |-> "checkRateLimit", channel |-> channel, accountId |-> accountId,
                   maxPerMinute |-> maxPerMinute, maxPerHour |-> maxPerHour, now |-> t,
                   ret |-> CheckRateLimitRet(channel, accountId, maxPerMinute, maxPerHour, t)]
     /\ UNCHANGED <<now, activeWindow, entries, pendingResolvers, gateVars,
                    limiterVars, auditVars, vaultVars, soulVars, watchVars, historyVars, flowVars>>

RECURSIVE TotalRecorded(_)
\* the number of timestamps stored under the keys in the set keys
TotalRecorded(keys) ==
  IF keys = {}
    THEN 0
    ELSE LET k == CHOOSE x \in keys : TRUE
         IN Len(buckets[k]) + TotalRecorded(keys \ {k})

RecordMessage(channel, accountId, nowArg) ==
  LET t == OrElse(nowArg, now)
      key == BucketKey(channel, accountId)
      timestamps == PruneExpired(BucketsGet(key), ONE_HOUR_MS, t)
  IN /\ TotalRecorded(DOMAIN buckets) < MaxRecords
     /\ buckets' = BucketsSet(key, Append(timestamps, t))
     /\ lastOp' = [op |-> "recordMessage", channel |-> channel, accountId |-> accountId,
                   now |-> t]
     /\ UNCHANGED <<now, activeWindow, entries, pendingResolvers, gateVars, auditVars, vaultVars, soulVars, watchVars, historyVars, flowVars>>

\* -------------------------------------------------------------- sending flows
\* the bucket and the limits of the flows
FlowChannel == "whatsapp"

FlowLimits == [maxPerMinute |-> 1, maxPerHour |-> 2]

\* the check of a flow that starts only when no other flow is between its
\* check and its record
FlowChecksAlone(f) ==
  LET ret == CheckRateLimitRet(FlowChannel, Null, Some(FlowLimits.maxPerMinute),
                               Some(FlowLimits.maxPerHour), now)
  IN /\ flows[f] = "idle"
     /\ \A g \in DOMAIN flows : flows[g] = "idle"
     /\ flows' = [flows EXCEPT ![f] = IF ret.allowed THEN "allowed" ELSE "idle"]
     /\ lastOp' = [op |-> "flowCheck", flow |-> f, now |-> now, ret |-> ret]
     /\ UNCHANGED <<now, activeWindow, entries, pendingResolvers, gateVars, limiterVars,
                    auditVars, vaultVars, soulVars, watchVars, historyVars>>

\* a flow calls checkRateLimit({channel, maxPerMinute, maxPerHour}) before it
\* sends; a message that is not allowed is blocked and the flow ends
FlowChecks(f) ==
  LET ret == CheckRateLimitRet(FlowChannel, Null, Some(FlowLimits.maxPerMinute),
                               Some(FlowLimits.maxPerHour), now)
  IN /\ flows[f] = "idle"
     /\ flows' = [flows EXCEPT ![f] = IF ret.allowed THEN "allowed" ELSE "idle"]
     /\ lastOp' = [op |-> "flowCheck", flow |-> f, now |-> now, ret |-> ret]
     /\ UNCHANGED <<now, activeWindow, entries, pendingResolvers, gateVars, limiterVars,
                    auditVars, vaultVars, soulVars, watchVars, historyVars>>

\* the send of the flow has proceeded and the flow calls recordMessage({channel})
FlowRecords(f) ==
  LET key == BucketKey(FlowChannel, Null)
      timestamps == PruneExpired(BucketsGet(key), ONE_HOUR_MS, now)
  IN /\ flows[f] = "allowed"
     /\ TotalRecorded(DOMAIN buckets) < MaxRecords
     /\ buckets' = BucketsSet(key, Append(timestamps, now))
     /\ flows' = [flows EXCEPT ![f] = "idle"]
     /\ lastOp' = [op |-> "flowRecord", flow |-> f, now |-> now]
     /\ UNCHANGED <<now, activeWindow, entries, pendingResolvers, gateVars, auditVars,
                    vaultVars, soulVars, watchVars, historyVars>>

\* RateLimitConfig; a field that is not defined is Null
RateLimitConfig(perMinute, perHour, overflow) ==
  [maxMessagesPerMinute |-> perMinute, maxMessagesPerHour |-> perHour,
   rateLimitOverflow |-> overflow]

\* a ?? b
Coalesce(a, b) == IF a # Null THEN a ELSE b

\* the channels that have a case of their own in the switch
AccountChannels == {"telegram", "whatsapp", "discord"}

\* the branch of telegram, whatsapp and discord
ResolveWithAccounts(ch, accountId) ==
  IF ch = Null
    THEN RateLimitConfig(Null, Null, Null)
    ELSE IF /\ accountId # Null
            /\ Val(accountId) # ""
            /\ Val(accountId) \in DOMAIN Val(ch).accounts
            /\ Val(ch).accounts[Val(accountId)] # Null
           THEN LET acct == Val(Val(ch).accounts[Val(accountId)])
                    tg == Val(ch)
                IN RateLimitConfig(
                     Coalesce(acct.maxMessagesPerMinute, tg.maxMessagesPerMinute),
                     Coalesce(acct.maxMessagesPerHour, tg.maxMessagesPerHour),
                     Coalesce(acct.rateLimitOverflow, tg.rateLimitOverflow))
           ELSE RateLimitConfig(Val(ch).maxMessagesPerMinute,
                                Val(ch).maxMessagesPerHour,
                                Val(ch).rateLimitOverflow)

\* the default branch: channels[channel] ?? {}
ResolveGeneric(ch) ==
  IF ch = Null
    THEN RateLimitConfig(Null, Null, Null)
    ELSE RateLimitConfig(Val(ch).maxMessagesPerMinute,
                         Val(ch).maxMessagesPerHour,
                         Val(ch).rateLimitOverflow)

\* resolveChannelRateLimitConfig: the switch over the channel
ResolveChannelRateLimitConfigRet(cfg, channel, accountId) ==
  IF cfg.channels = Null
    THEN RateLimitConfig(Null, Null, Null)
    ELSE IF channel \in AccountChannels
           THEN ResolveWithAccounts(Val(cfg.channels)[channel], accountId)
           ELSE ResolveGeneric(Val(cfg.channels)[channel])

ResolveChannelRateLimitConfig(cfg, channel, accountId) ==
  /\ lastOp' = [op |-> "resolveChannelRateLimitConfig", cfg |-> cfg, channel |-> channel,
                accountId |-> accountId,
                ret |-> ResolveChannelRateLimitConfigRet(cfg, channel, accountId)]
  /\ UNCHANGED <<now, activeWindow, entries, pendingResolvers, gateVars,
                 limiterVars, auditVars, vaultVars, soulVars, watchVars, historyVars, flowVars>>

\* checkChannelRateLimit: { ...result, overflow }
CheckChannelRateLimitRet(cfg, channel, accountId, t) ==
  LET limConfig == ResolveChannelRateLimitConfigRet(cfg, channel, accountId)
      overflow == OrElse(limConfig.rateLimitOverflow, "queue")
      result == CheckRateLimitRet(channel, accountId, limConfig.maxMessagesPerMinute,
                                  limConfig.maxMessagesPerHour, t)
  IN [allowed |-> result.allowed, reason |-> result.reason, overflow |-> overflow]

CheckChannelRateLimit(cfg, channel, accountId, nowArg) ==
  LET t == OrElse(nowArg, now)
  IN /\ lastOp' = [op |-> "checkChannelRateLimit", cfg |-> cfg, channel |-> channel,
                   accountId |-> accountId, now |-> t,
                   ret |-> CheckChannelRateLimitRet(cfg, channel, accountId, t)]
     /\ UNCHANGED <<now, activeWindow, entries, pendingResolvers, gateVars,
                    limiterVars, auditVars, vaultVars, soulVars, watchVars, historyVars, flowVars>>

\* ------------------------------------------------------------------ audit log
MAX_CONTENT_LENGTH == 10000

\* truncateContent returning the content whole
TruncateContentNever(content) == content

\* truncateContent: content.slice(0, MAX_CONTENT_LENGTH) when it is longer
TruncateContent(content) ==
  IF content.length <= MAX_CONTENT_LENGTH
    THEN content
    ELSE [id |-> content.id, length |-> MAX_CONTENT_LENGTH]

\* JSON.stringify({...entry, messageContent: truncateContent(...)}) + "\n"
AuditLine(entry) ==
  [entry EXCEPT !.messageContent = TruncateContent(@)]

\* getAuditFd opening the file with flag "w", which empties it
AppendEffectTruncatingOnOpen(entry, openFails, writeFails) ==
  IF auditFd = Null /\ openFails
    THEN UNCHANGED <<auditFd, auditFile>>
    ELSE /\ auditFd' = Some("fd")
         /\ auditFile' =
              LET opened == IF auditFd = Null THEN <<>> ELSE auditFile
              IN IF writeFails THEN opened ELSE Append(opened, AuditLine(entry))

\* appendAuditEntry on the file: getAuditFd returns the cached descriptor or
\* opens the file in append mode (openSync may throw, then nothing is cached
\* and the call returns); writeSync appends the line or throws
AppendEffect(entry, openFails, writeFails) ==
  IF auditFd = Null /\ openFails
    THEN UNCHANGED <<auditFd, auditFile>>
    ELSE /\ auditFd' = Some("fd")
         /\ auditFile' = IF writeFails THEN auditFile ELSE Append(auditFile, AuditLine(entry))

\* appendAuditEntry with writeSync outside its try block
AppendRaisesOnWriteFailure(openFails, writeFails) ==
  ~(auditFd = Null /\ openFails) /\ writeFails

\* whether the call ends with an exception: openSync is called inside the try
\* block of getAuditFd, JSON.stringify and writeSync inside the try block of
\* appendAuditEntry, and both catch clauses only log
AppendRaises(openFails, writeFails) == FALSE

AppendAuditEntry(entry, openFails, writeFails) ==
  /\ Len(auditFile) < MaxLines
  /\ AppendEffect(entry, openFails, writeFails)
  /\ lastOp' = [op |-> "appendAuditEntry", entry |-> entry,
                opened |-> (auditFd = Null /\ ~openFails),
                wrote |-> (~(auditFd = Null /\ openFails) /\ ~writeFails),
                raised |-> AppendRaises(openFails, writeFails),
                afterFailedOpen |-> (lastOp.op \in {"appendAuditEntry", "logOutboundAudit"}
                                     /\ auditFd = Null)]
  /\ UNCHANGED <<now, activeWindow, entries, pendingResolvers, gateVars, limiterVars, vaultVars, soulVars, watchVars, historyVars, flowVars>>

\* logOutboundAudit: the entry it builds, with new Date() read from the clock
OutboundAuditEntry(params) ==
  [timestamp |-> now,
   targetChannel |-> params.channel,
   recipient |-> params.recipient,
   messageContent |-> params.content,
   blocked |-> params.blocked,
   blockReason |-> params.blockReason,
   sessionId |-> params.sessionId]

LogOutboundAudit(params, openFails, writeFails) ==
  /\ Len(auditFile) < MaxLines
  /\ AppendEffect(OutboundAuditEntry(params), openFails, writeFails)
  /\ lastOp' = [op |-> "logOutboundAudit", entry |-> OutboundAuditEntry(params),
                opened |-> (auditFd = Null /\ ~openFails),
                wrote |-> (~(auditFd = Null /\ openFails) /\ ~writeFails),
                raised |-> AppendRaises(openFails, writeFails),
                afterFailedOpen |-> (lastOp.op \in {"appendAuditEntry", "logOutboundAudit"}
                                     /\ auditFd = Null)]
  /\ UNCHANGED <<now, activeWindow, entries, pendingResolvers, gateVars, limiterVars, vaultVars, soulVars, watchVars, historyVars, flowVars>>

\* closeAuditLog: closeSync may throw, the descriptor is forgotten either way
CloseAuditLog ==
  /\ auditFd' = Null
  /\ UNCHANGED auditFile
  /\ lastOp' = [op |-> "closeAuditLog", wasOpen |-> (auditFd # Null)]
  /\ UNCHANGED <<now, activeWindow, entries, pendingResolvers, gateVars, limiterVars, vaultVars, soulVars, watchVars, historyVars, flowVars>>

\* ------------------------------------------------- strings, buffers, AES-GCM
\* A string is the sequence of its UTF-16 code units: "a" an ASCII letter,
\* " " a space, "0" the character U+0000, "H" a high surrogate, "L" a low
\* surrogate, "R" the replacement character U+FFFD.  A byte is named by its
\* hexadecimal value.
RECURSIVE Utf8Encode(_)
\* Buffer.from(s, "utf-8"): a surrogate pair is one code point of four bytes,
\* a surrogate that is not part of a pair is encoded as U+FFFD
Utf8Encode(s) ==
  IF s = <<>>
    THEN <<>>
    ELSE IF Head(s) = "H" /\ Len(s) >= 2 /\ s[2] = "L"
           THEN <<"F0", "9F", "98", "80">> \o Utf8Encode(Tail(Tail(s)))
           ELSE (CASE Head(s) = "a" -> <<"61">>
                   [] Head(s) = " " -> <<"20">>
                   [] Head(s) = "0" -> <<"00">>
                   [] OTHER -> <<"EF", "BF", "BD">>) \o Utf8Encode(Tail(s))

RECURSIVE Utf8Decode(_)
\* buffer.toString("utf-8"); bytes that are not a code point decode to U+FFFD
Utf8Decode(b) ==
  IF b = <<>>
    THEN <<>>
    ELSE IF Len(b) >= 4 /\ SubSeq(b, 1, 4) = <<"F0", "9F", "98", "80">>
           THEN <<"H", "L">> \o Utf8Decode(SubSeq(b, 5, Len(b)))
           ELSE IF Len(b) >= 3 /\ SubSeq(b, 1, 3) = <<"EF", "BF", "BD">>
                  THEN <<"R">> \o Utf8Decode(SubSeq(b, 4, Len(b)))
                  ELSE (CASE Head(b) = "61" -> <<"a">>
                          [] Head(b) = "20" -> <<" ">>
                          [] Head(b) = "00" -> <<"0">>
                          [] OTHER -> <<"R">>) \o Utf8Decode(Tail(b))

\* A Buffer is a sequence of segments.  A segment of kind "raw" holds the bytes
\* in data; a segment of kind "salt" or "iv" holds n random bytes named by
\* data; a segment of kind "ct" is the AES-256-GCM ciphertext of the bytes in
\* data under key and iv, and one of kind "tag" its authentication tag; a
\* segment of kind "cut" is a part of another segment.
Segment(kind, key, iv, data, n) ==
  [kind |-> kind, key |-> key, iv |-> iv, data |-> data, n |-> n]

RawBuffer(bytes) ==
  IF bytes = <<>> THEN <<>> ELSE <<Segment("raw", <<>>, <<>>, bytes, Len(bytes))>>

RECURSIVE BufferLength(_)
BufferLength(buf) ==
  IF buf = <<>> THEN 0 ELSE Head(buf).n + BufferLength(Tail(buf))

RECURSIVE Subarray(_, _, _)
\* buf.subarray(start, end): the segments between the two offsets; a segment
\* the offsets cut through is no longer the value it was
Subarray(buf, start, end) ==
  IF buf = <<>> \/ end <= 0 \/ start >= end
    THEN <<>>
    ELSE LET seg == Head(buf)
             rest == Subarray(Tail(buf), IF start > seg.n THEN start - seg.n ELSE 0,
                              end - seg.n)
         IN IF start >= seg.n
              THEN Subarray(Tail(buf), start - seg.n, end - seg.n)
              ELSE IF start = 0 /\ end >= seg.n
                     THEN <<seg>> \o rest
                     ELSE <<Segment("cut", seg.key, seg.iv, seg.data,
                                    (IF end < seg.n THEN end ELSE seg.n) - start)>>
                          \o rest

SALT_LENGTH == 16

IV_LENGTH == 12

TAG_LENGTH == 16

\* deriveKey: PBKDF2 of the passphrase and the salt bytes
DeriveKey(passphrase, salt) == <<passphrase>> \o salt

\* cipher.update(plaintext, "utf-8") + cipher.final(), and cipher.getAuthTag()
CipherText(key, iv, bytes) ==
  IF bytes = <<>> THEN <<>> ELSE <<Segment("ct", key, iv, bytes, Len(bytes))>>

AuthTag(key, iv, bytes) == <<Segment("tag", key, iv, bytes, TAG_LENGTH)>>

\* encryptContent with the tag behind the ciphertext
EncryptContentTagLast(plaintext, passphrase, salt, iv) ==
  LET key == DeriveKey(passphrase, salt)
      bytes == Utf8Encode(plaintext)
  IN <<Segment("salt", <<>>, <<>>, salt, SALT_LENGTH),
       Segment("iv", <<>>, <<>>, iv, IV_LENGTH)>>
     \o CipherText(key, iv, bytes) \o AuthTag(key, iv, bytes)

\* encryptContent that encrypts the empty string whatever it is given
EncryptContentOfNothing(plaintext, passphrase, salt, iv) ==
  LET key == DeriveKey(passphrase, salt)
      bytes == Utf8Encode(<<>>)
  IN <<Segment("salt", <<>>, <<>>, salt, SALT_LENGTH),
       Segment("iv", <<>>, <<>>, iv, IV_LENGTH)>>
     \o AuthTag(key, iv, bytes) \o CipherText(key, iv, bytes)

\* encryptContent, with the salt and the iv that randomBytes returned
EncryptContent(plaintext, passphrase, salt, iv) ==
  LET key == DeriveKey(passphrase, salt)
      bytes == Utf8Encode(plaintext)
  IN <<Segment("salt", <<>>, <<>>, salt, SALT_LENGTH),
       Segment("iv", <<>>, <<>>, iv, IV_LENGTH)>>
     \o AuthTag(key, iv, bytes) \o CipherText(key, iv, bytes)

\* the random bytes a slice of a blob holds, when it is one whole value
BytesOf(slice, kind) ==
  IF Len(slice) = 1 /\ slice[1].kind = kind THEN slice[1].data ELSE <<"other">>

\* decipher.update + decipher.final: the tag authenticates the ciphertext
\* under the key and the iv
Authentic(key, iv, tag, encrypted) ==
  /\ Len(tag) = 1
  /\ tag[1].kind = "tag"
  /\ tag[1].key = key
  /\ tag[1].iv = iv
  /\ encrypted = CipherText(key, iv, tag[1].data)

Throws == [threw |-> TRUE, value |-> <<>>]

Returns(v) == [threw |-> FALSE, value |-> v]

\* decryptContent: what it returns, or that it throws
DecryptContentLenient(data, passphrase) ==
  LET tag == Subarray(data, SALT_LENGTH + IV_LENGTH, SALT_LENGTH + IV_LENGTH + TAG_LENGTH)
  IN IF Len(tag) = 1 /\ tag[1].kind = "tag"
       THEN Returns(Utf8Decode(tag[1].data))
       ELSE Throws

DecryptContent(data, passphrase) ==
  IF BufferLength(data) < SALT_LENGTH + IV_LENGTH + TAG_LENGTH
    THEN Throws
    ELSE LET salt == Subarray(data, 0, SALT_LENGTH)
             iv == Subarray(data, SALT_LENGTH, SALT_LENGTH + IV_LENGTH)
             tag == Subarray(data, SALT_LENGTH + IV_LENGTH,
                             SALT_LENGTH + IV_LENGTH + TAG_LENGTH)
             encrypted == Subarray(data, SALT_LENGTH + IV_LENGTH + TAG_LENGTH,
                                   BufferLength(data))
             key == DeriveKey(passphrase, BytesOf(salt, "salt"))
         IN IF Authentic(key, BytesOf(iv, "iv"), tag, encrypted)
              THEN Returns(Utf8Decode(tag[1].data))
              ELSE Throws

\* a blob with one of its parts altered; "short" is a blob cut below the
\* length of salt, iv and tag
AlterBlob(data, part) ==
  LET other(seg) == Segment("cut", seg.key, seg.iv, seg.data, seg.n)
  IN CASE part = "salt" -> <<other(data[1])>> \o Tail(data)
       [] part = "iv" -> <<data[1], other(data[2])>> \o SubSeq(data, 3, Len(data))
       [] part = "authTag" -> <<data[1], data[2], other(data[3])>> \o SubSeq(data, 4, Len(data))
       [] part = "ciphertext" ->
            IF Len(data) >= 4
              THEN SubSeq(data, 1, 3) \o <<other(data[4])>>
              ELSE data \o <<Segment("cut", <<>>, <<>>, <<>>, 1)>>
       [] part = "short" ->
            Subarray(data, 0, SALT_LENGTH + IV_LENGTH + TAG_LENGTH - 1)

\* --- the two functions applied to drawn inputs: lastOp holds the blob
Encrypt(plaintext, passphrase, salt, iv) ==
  /\ lastOp' = [op |-> "encryptContent", plaintext |-> plaintext,
                passphrase |-> passphrase, altered |-> Null,
                ret |-> EncryptContent(plaintext, passphrase, salt, iv)]
  /\ UNCHANGED <<now, activeWindow, entries, pendingResolvers, gateVars, limiterVars,
                 auditVars, vaultVars, soulVars, watchVars, historyVars, flowVars>>

Alter(part) ==
  /\ lastOp.op = "encryptContent"
  /\ lastOp' = [lastOp EXCEPT !.op = "alter", !.altered = Some(part),
                              !.ret = AlterBlob(lastOp.ret, part)]
  /\ UNCHANGED <<now, activeWindow, entries, pendingResolvers, gateVars, limiterVars,
                 auditVars, vaultVars, soulVars, watchVars, historyVars, flowVars>>

Decrypt(passphrase) ==
  /\ lastOp.op \in {"encryptContent", "alter"}
  /\ lastOp' = [op |-> "decryptContent", data |-> lastOp.ret,
                passphrase |-> passphrase, plaintext |-> lastOp.plaintext,
                sealedWith |-> lastOp.passphrase, altered |-> lastOp.altered,
                ret |-> DecryptContent(lastOp.ret, passphrase)]
  /\ UNCHANGED <<now, activeWindow, entries, pendingResolvers, gateVars, limiterVars,
                 auditVars, vaultVars, soulVars, watchVars, historyVars, flowVars>>

\* ---------------------------------------------------------------------- vault
\* the bytes of a file's content; a byte of a blob is no character
RECURSIVE BufferBytes(_)
BufferBytes(buf) ==
  IF buf = <<>>
    THEN <<>>
    ELSE (IF Head(buf).kind = "raw" THEN Head(buf).data
                                    ELSE [i \in 1..Head(buf).n |-> "FF"])
         \o BufferBytes(Tail(buf))

\* Buffer.alloc(n, 0)
Zeros(n) == RawBuffer([i \in 1..n |-> "00"])

\* resolvePassphrase: the trimmed value, undefined when unset or empty
ResolvePassphrase(e) ==
  IF e = Null \/ Val(e) = " " THEN Null ELSE e

\* the process has not exited
Alive == lastOp.op # "exit"

\* registerShutdownHooks without its flag
ListenersAfterUnguarded == [e \in ProcessEvents |-> listeners[e] + 1]

\* registerShutdownHooks: the listeners after the call
ListenersAfter ==
  IF shutdownHooksRegistered
    THEN listeners
    ELSE [e \in ProcessEvents |-> listeners[e] + 1]

\* the lastOp of a loadSoulContent that returned
LoadReturned(passphrase, vault, cached, decrypted, ret, encrypted, erased) ==
  [op |-> "loadSoulContent", passphrase |-> passphrase, vault |-> vault,
   cached |-> cached, decrypted |-> decrypted, ret |-> ret,
   encrypted |-> encrypted, erased |-> erased]

\* the lastOp of a decryptSoulToMemory called directly that returned or threw
DecryptReturned(passphrase, vault, decrypted) ==
  [op |-> "decryptSoulToMemory", passphrase |-> passphrase, vault |-> vault,
   decrypted |-> decrypted]

SoulResult(content, source) == [content |-> content, source |-> source]

\* the lastOp when the call c of decryptSoulToMemory returns content
Completed(c) ==
  IF c.caller = "loadSoulContent"
    THEN LoadReturned(Some(c.passphrase), c.vault, Null, Some(Returns(c.content)),
                      Some(SoulResult(c.content, "vault")), FALSE, "no")
    ELSE DecryptReturned(c.passphrase, c.vault, Some(Returns(c.content)))

\* decryptSoulToMemory up to the write of the mirror: reads and decrypts the
\* blob, caches the content; with no /dev/shm it registers the hooks and
\* returns, otherwise it waits for mkdir and writeFile.  failed is the lastOp
\* of a call that threw.
DecryptSoulToMemory(caller, passphrase, shm, failed) ==
  LET d == IF files[EncPath] = Null
             THEN Throws
             ELSE DecryptContent(Val(files[EncPath]), passphrase)
      c == [caller |-> caller, passphrase |-> passphrase, vault |-> files[EncPath],
            content |-> d.value, shm |-> shm]
  IN IF d.threw
       THEN /\ lastOp' = failed
            /\ UNCHANGED <<files, decryptedSoulContent, shmCleanupPath,
                           shutdownHooksRegistered, listeners, soulCall>>
       ELSE /\ decryptedSoulContent' = Some(d.value)
            /\ IF shm = "none"
                 THEN /\ listeners' = ListenersAfter
                      /\ shutdownHooksRegistered' = TRUE
                      /\ lastOp' = Completed(c)
                      /\ UNCHANGED soulCall
                 ELSE /\ soulCall' = Some(c)
                      /\ lastOp' = [op |-> "await", caller |-> caller]
                      /\ UNCHANGED <<listeners, shutdownHooksRegistered>>
            /\ UNCHANGED <<files, shmCleanupPath>>

\* decryptSoulToMemory called directly
CallDecryptSoulToMemory(passphrase, shm) ==
  /\ Alive
  /\ soulCall = Null
  /\ DecryptSoulToMemory("decryptSoulToMemory", passphrase, shm,
                         DecryptReturned(passphrase, files[EncPath], Some(Throws)))
  /\ UNCHANGED <<now, activeWindow, entries, pendingResolvers, gateVars, limiterVars,
                 auditVars, env, soulVars, watchVars, historyVars, flowVars>>

\* decryptSoulToMemory from the end of the mirror write: records the path of
\* a mirror that was written, registers the hooks, returns
MirrorWritten ==
  /\ Alive
  /\ soulCall # Null
  /\ LET c == Val(soulCall)
     IN /\ IF c.shm = "ok"
             THEN /\ files' = [files EXCEPT ![ShmPath] = Some(RawBuffer(Utf8Encode(c.content)))]
                  /\ shmCleanupPath' = Some(ShmPath)
             ELSE UNCHANGED <<files, shmCleanupPath>>
        /\ listeners' = ListenersAfter
        /\ shutdownHooksRegistered' = TRUE
        /\ soulCall' = Null
        /\ lastOp' = Completed(c)
  /\ UNCHANGED <<now, activeWindow, entries, pendingResolvers, gateVars, limiterVars,
                 auditVars, env, decryptedSoulContent, soulVars, watchVars, historyVars, flowVars>>

\* the erase of the plaintext source also when nothing was encrypted
EraseOutcomeUnsealed(sealed, erase) ==
  CASE erase = "ok" -> "deleted"
    [] erase = "unlinkFails" -> "zeroed"
    [] OTHER -> "no"

\* what becomes of the plaintext source: the erase is tried once
\* encryptSoulFile has returned; the overwrite comes before the unlink
EraseOutcome(sealed, erase) ==
  IF ~sealed
    THEN "no"
    ELSE CASE erase = "ok" -> "deleted"
           [] erase = "unlinkFails" -> "zeroed"
           [] OTHER -> "no"

\* loadSoulContent; encryptFails: encryptSoulFile throws; erase: how the erase
\* of the plaintext source ends; shm: how the mirror write will end; salt, iv:
\* what randomBytes returns
LoadSoulContent(encryptFails, erase, shm, salt, iv) ==
  /\ Alive
  /\ soulCall = Null
  /\ LET passphrase == ResolvePassphrase(env)
         vault == files[EncPath]
         cached == decryptedSoulContent
     IN IF passphrase # Null /\ vault # Null
          THEN IF cached # Null
                 THEN /\ lastOp' = LoadReturned(passphrase, vault, cached, Null,
                                                Some(SoulResult(Val(cached), "vault")),
                                                FALSE, "no")
                      /\ UNCHANGED <<files, decryptedSoulContent, shmCleanupPath,
                                     shutdownHooksRegistered, listeners, soulCall>>
                 ELSE DecryptSoulToMemory("loadSoulContent", Val(passphrase), shm,
                                          LoadReturned(passphrase, vault, cached,
                                                       Some(Throws), Null, FALSE, "no"))
          ELSE /\ UNCHANGED <<decryptedSoulContent, shmCleanupPath,
                              shutdownHooksRegistered, listeners, soulCall>>
               /\ IF files[PlaintextPath] = Null
                    THEN /\ lastOp' = LoadReturned(passphrase, vault, cached, Null, Null,
                                                   FALSE, "no")
                         /\ UNCHANGED files
                    ELSE LET bytes == BufferBytes(Val(files[PlaintextPath]))
                             content == Utf8Decode(bytes)
                             sealed == passphrase # Null /\ ~encryptFails
                             blob == EncryptContent(content, Val(passphrase), salt, iv)
                             zeros == Zeros(Len(Utf8Encode(content)))
                             erased == EraseOutcome(sealed, erase)
                         IN /\ files' =
                                 [f \in FilePaths |->
                                    IF f = EncPath /\ sealed THEN Some(blob)
                                    ELSE IF f = PlaintextPath /\ erased = "deleted" THEN Null
                                    ELSE IF f = PlaintextPath /\ erased = "zeroed" THEN Some(zeros)
                                    ELSE files[f]]
                            /\ lastOp' = LoadReturned(passphrase, vault, cached, Null,
                                                      Some(SoulResult(content, "plaintext")),
                                                      sealed, erased)
  /\ UNCHANGED <<now, activeWindow, entries, pendingResolvers, gateVars, limiterVars,
                 auditVars, env, soulVars, watchVars, historyVars, flowVars>>

\* wipeAndDelete(shmCleanupPath): the files after it
WipeAndDelete(path, wipe) ==
  IF files[path] = Null
    THEN files
    ELSE CASE wipe \in {"ok", "overwriteFails"} -> [files EXCEPT ![path] = Null]
           [] wipe = "unlinkFails" ->
                [files EXCEPT ![path] = Some(Zeros(BufferLength(Val(files[path]))))]
           [] OTHER -> files

\* what a run of cleanupDecryptedFiles did to the mirror; fault: the file
\* operation that failed in it
Wiped(wipe) ==
  [mirror |-> shmCleanupPath,
   fault |-> IF shmCleanupPath # Null /\ files[ShmPath] # Null THEN wipe ELSE "ok",
   overwritten |-> shmCleanupPath # Null /\ files[ShmPath] # Null
                   /\ wipe \in {"ok", "unlinkFails"},
   deleted |-> shmCleanupPath # Null /\ files[ShmPath] # Null
               /\ wipe \in {"ok", "overwriteFails"}]

\* cleanupDecryptedFiles, exported as wipeSoulVault
CleanupDecryptedFiles(wipe) ==
  /\ files' = IF shmCleanupPath # Null THEN WipeAndDelete(Val(shmCleanupPath), wipe)
                                       ELSE files
  /\ shmCleanupPath' = Null
  /\ decryptedSoulContent' = Null

WipeSoulVault(wipe) ==
  /\ Alive
  /\ CleanupDecryptedFiles(wipe)
  /\ lastOp' = [op |-> "wipeSoulVault", wiped |-> Wiped(wipe)]
  /\ UNCHANGED <<now, activeWindow, entries, pendingResolvers, gateVars, limiterVars,
                 auditVars, env, shutdownHooksRegistered, listeners, soulCall, soulVars, watchVars, historyVars, flowVars>>

\* the process ends by event: a normal exit, SIGINT or SIGTERM.  A signal with
\* no listener kills the process; with listeners each runs the cleanup and
\* calls process.exit, which emits exit.  The listeners of exit run the
\* cleanup.  A mirror write that is under way may have reached the file.
ProcessEnds(event, wipe, landed) ==
  /\ Alive
  /\ LET runs == IF event = "exit" THEN listeners["exit"]
                 ELSE IF listeners[event] = 0 THEN 0
                 ELSE listeners[event] + listeners["exit"]
         pending == soulCall # Null /\ Val(soulCall).shm = "ok" /\ landed
         wiped == IF runs > 0 THEN Wiped(wipe)
                  ELSE [mirror |-> Null, fault |-> "ok", overwritten |-> FALSE,
                        deleted |-> FALSE]
     IN /\ lastOp' = [op |-> "exit", event |-> event, handlerRuns |-> runs,
                      wiped |-> wiped]
        /\ IF runs > 0
             THEN /\ shmCleanupPath' = Null
                  /\ decryptedSoulContent' = Null
             ELSE UNCHANGED <<shmCleanupPath, decryptedSoulContent>>
        /\ files' =
             LET f == IF runs > 0 /\ shmCleanupPath # Null
                        THEN WipeAndDelete(Val(shmCleanupPath), wipe)
                        ELSE files
             IN IF pending
                  THEN [f EXCEPT ![ShmPath] =
                          Some(RawBuffer(Utf8Encode(Val(soulCall).content)))]
                  ELSE f
  /\ UNCHANGED <<now, activeWindow, entries, pendingResolvers, gateVars, limiterVars,
                 auditVars, env, shutdownHooksRegistered, listeners, soulCall, soulVars, watchVars, historyVars, flowVars>>

\* the environment variable is set, changed or unset
SetPassphraseEnv(v) ==
  /\ Alive
  /\ env' = v
  /\ lastOp' = [op |-> "setenv", value |-> v]
  /\ UNCHANGED <<now, activeWindow, entries, pendingResolvers, gateVars, limiterVars,
                 auditVars, files, decryptedSoulContent, shmCleanupPath,
                 shutdownHooksRegistered, listeners, soulCall, soulVars, watchVars, historyVars, flowVars>>

\* the operator writes the plaintext document
WriteSoulFile(content) ==
  /\ Alive
  /\ files' = [files EXCEPT ![PlaintextPath] = Some(RawBuffer(Utf8Encode(content)))]
  /\ lastOp' = [op |-> "writeSoulFile", content |-> content]
  /\ UNCHANGED <<now, activeWindow, entries, pendingResolvers, gateVars, limiterVars,
                 auditVars, env, decryptedSoulContent, shmCleanupPath,
                 shutdownHooksRegistered, listeners, soulCall, soulVars, watchVars, historyVars, flowVars>>

\* the blob that encryptSoulFile wrote is altered on disk
AlterVault(part) ==
  /\ Alive
  /\ files[EncPath] # Null
  /\ \A i \in DOMAIN Val(files[EncPath]) : Val(files[EncPath])[i].kind # "cut"
  /\ Len(Val(files[EncPath])) >= 3
  /\ files' = [files EXCEPT ![EncPath] = Some(AlterBlob(Val(files[EncPath]), part))]
  /\ lastOp' = [op |-> "alterVault", part |-> part]
  /\ UNCHANGED <<now, activeWindow, entries, pendingResolvers, gateVars, limiterVars,
                 auditVars, env, decryptedSoulContent, shmCleanupPath,
                 shutdownHooksRegistered, listeners, soulCall, soulVars, watchVars, historyVars, flowVars>>

\* ---------------------------------------------------------- TOTP secret store
RECURSIVE TrimStart(_)
TrimStart(s) ==
  IF s # <<>> /\ Head(s) = " " THEN TrimStart(Tail(s)) ELSE s

RECURSIVE TrimEnd(_)
TrimEnd(s) ==
  IF s # <<>> /\ s[Len(s)] = " " THEN TrimEnd(SubSeq(s, 1, Len(s) - 1)) ELSE s

\* String.prototype.trim
Trim(s) == TrimEnd(TrimStart(s))

\* saveTotpSecret: the file it writes and the content; encryptSecret is the
\* code of encryptContent
SaveTotpSecret(secret, salt, iv) ==
  /\ Alive
  /\ LET passphrase == ResolvePassphrase(env)
         path == IF passphrase # Null THEN SecretPath ELSE SecretPlaintextPath
         content == IF passphrase # Null
                      THEN EncryptContent(secret, Val(passphrase), salt, iv)
                      ELSE RawBuffer(Utf8Encode(secret))
     IN /\ files' = [files EXCEPT ![path] = Some(content)]
        /\ lastOp' = [op |-> "saveTotpSecret", secret |-> secret,
                      passphrase |-> passphrase]
  /\ lastSaved' = Some(secret)
  /\ UNCHANGED <<now, activeWindow, entries, pendingResolvers, gateVars, limiterVars,
                 auditVars, env, decryptedSoulContent, shmCleanupPath,
                 shutdownHooksRegistered, listeners, soulCall, soulVars, watchVars,
                 acceptedCodes, flowVars>>

\* loadTotpSecret that reads the plaintext file before the encrypted one
LoadTotpSecretRetPlainFirst(passphrase, enc, plain) ==
  IF plain # Null
    THEN Some(Trim(Utf8Decode(BufferBytes(Val(plain)))))
    ELSE IF passphrase # Null /\ enc # Null
                              /\ ~DecryptContent(Val(enc), Val(passphrase)).threw
           THEN Some(DecryptContent(Val(enc), Val(passphrase)).value)
           ELSE Null

\* loadTotpSecret: what it returns; enc and plain are what readFile gives for
\* the two files, Null when it throws; decryptSecret is the code of
\* decryptContent
LoadTotpSecretRet(passphrase, enc, plain) ==
  IF passphrase # Null /\ enc # Null /\ ~DecryptContent(Val(enc), Val(passphrase)).threw
    THEN Some(DecryptContent(Val(enc), Val(passphrase)).value)
    ELSE IF plain # Null
           THEN Some(Trim(Utf8Decode(BufferBytes(Val(plain)))))
           ELSE Null

\* loadTotpSecret; unreadable: the files whose readFile fails although they exist
LoadTotpSecret(unreadable) ==
  /\ Alive
  /\ LET passphrase == ResolvePassphrase(env)
         enc == IF SecretPath \in unreadable THEN Null ELSE files[SecretPath]
         plain == IF SecretPlaintextPath \in unreadable THEN Null
                  ELSE files[SecretPlaintextPath]
     IN lastOp' = [op |-> "loadTotpSecret", passphrase |-> passphrase,
                   enc |-> enc, plain |-> plain,
                   saved |-> IF lastOp.op = "saveTotpSecret" THEN Some(lastOp.secret)
                                                             ELSE Null,
                   ret |-> LoadTotpSecretRet(passphrase, enc, plain)]
  /\ UNCHANGED <<now, activeWindow, entries, pendingResolvers, gateVars, limiterVars,
                 auditVars, vaultVars, soulVars, watchVars, historyVars, flowVars>>

\* ------------------------------------------------------------------ TOTP codes
\* A code string is known by its length, by whether all its characters are
\* digits, by the white space around it, and by the key and the counter it is
\* the TOTP code of, if any.  HMAC-SHA1 is ideal: two codes agree only if key
\* and counter agree.
TOTP_DIGITS == 6

TOTP_STEP_SECONDS == 30

CodeString(length, digits, padded, of) ==
  [length |-> length, digits |-> digits, padded |-> padded, of |-> of]

\* base32Decode: white space is dropped
Base32Decode(secret) == SelectSeq(secret, LAMBDA c : c # " ")

\* base32Decode throws for a character outside the alphabet
Base32DecodeThrows(secret) == \E i \in DOMAIN secret : secret[i] \notin {"a", " "}

\* Math.floor(time / 1000 / TOTP_STEP_SECONDS)
Counter(timeMs) == (timeMs \div 1000) \div TOTP_STEP_SECONDS

\* generateTotpCode throws: writeBigUInt64BE refuses a negative counter,
\* base32Decode a character outside the alphabet
GenerateTotpCodeThrows(secret, timeMs) ==
  Counter(timeMs) < 0 \/ Base32DecodeThrows(secret)

\* generateTotpCode: the code it returns when it does not throw
GenerateTotpCode(secret, timeMs) ==
  CodeString(TOTP_DIGITS, TRUE, FALSE, <<Base32Decode(secret), Counter(timeMs)>>)

\* code.trim()
TrimCode(code) == [code EXCEPT !.padded = FALSE]

RECURSIVE VerifyLoop(_, _, _, _, _)
\* the loop of verifyTotpCode from offset i on: "true" at the first offset
\* whose code is the trimmed one, "throws" when generateTotpCode throws before
\* that, "false" when the offsets are used up
VerifyLoop(secret, trimmed, i, window, timeMs) ==
  LET offsetTime == timeMs + i * TOTP_STEP_SECONDS * 1000
  IN IF i > window
       THEN "false"
       ELSE IF GenerateTotpCodeThrows(secret, offsetTime)
              THEN "throws"
              ELSE IF trimmed = GenerateTotpCode(secret, offsetTime)
                     THEN "true"
                     ELSE VerifyLoop(secret, trimmed, i + 1, window, timeMs)

\* verifyTotpCode that tests the form of the code only
VerifyTotpCodeFormOnly(secret, code, window, timeMs) ==
  LET trimmed == TrimCode(code)
  IN IF trimmed.length = TOTP_DIGITS /\ trimmed.digits THEN "true" ELSE "false"

\* verifyTotpCode with the window and the time it is given: "true", "false",
\* or "throws"
VerifyTotpCode(secret, code, window, timeMs) ==
  LET trimmed == TrimCode(code)
  IN IF trimmed.length # TOTP_DIGITS \/ ~trimmed.digits
       THEN "false"
       ELSE VerifyLoop(secret, trimmed, 0 - window, window, timeMs)

\* The clock of the model counts from Epoch, the start of a time step of a
\* running process: Date.now() is Epoch + now.  Only the TOTP codes depend
\* on more than differences of times.
Epoch == 2 * TOTP_STEP_SECONDS * 1000

DateNow == Epoch + now

\* setupTotp: generateTotpSecret returned secret, a base32 string
SetupTotp(secret, salt, iv) == SaveTotpSecret(secret, salt, iv)

\* the lastOp of a handleTotpCodeInput
CodeHandled(body, allowTextCommands, isAuthorizedSender, cfg, secret, ret) ==
  [op |-> "handleTotpCodeInput", body |-> body,
   allowTextCommands |-> allowTextCommands,
   isAuthorizedSender |-> isAuthorizedSender, cfg |-> cfg,
   secret |-> secret, ret |-> ret]

\* handleTotpCodeInput; ret is null, or the reply: "notConfigured", "invalid",
\* "approved", or "throws" when verifyTotpCode throws
HandleTotpCodeInput(body, allowTextCommands, isAuthorizedSender, cfg, channel) ==
  LET normalized == TrimCode(body)
      secret == LoadTotpSecretRet(ResolvePassphrase(env), files[SecretPath],
                                  files[SecretPlaintextPath])
      handled(s, ret) ==
        CodeHandled(body, allowTextCommands, isAuthorizedSender, cfg, s, ret)
      ignored ==
        \/ ~allowTextCommands
        \/ ~(normalized.length = 6 /\ normalized.digits)
        \/ ~isAuthorizedSender
        \/ cfg.approvalMode # Some("totp")
      windowMinutes == OrElse(cfg.totpWindowMinutes, 5)
      win == [expiresAt |-> now + windowMinutes * MsPerMinute,
              approvedActions |-> DefaultActions,
              channel |-> channel,
              accountId |-> Null]
      matches(i) == entries[i].action \in win.approvedActions
  IN /\ Alive
     /\ IF ignored
          THEN /\ lastOp' = handled(Null, "null")
               /\ UNCHANGED <<activeWindow, entries, pendingResolvers, acceptedCodes>>
          ELSE IF secret = Null \/ Val(secret) = <<>>
            THEN /\ lastOp' = handled(secret, "notConfigured")
                 /\ UNCHANGED <<activeWindow, entries, pendingResolvers, acceptedCodes>>
            ELSE IF VerifyTotpCode(Val(secret), normalized, 1, DateNow) # "true"
              THEN /\ lastOp' = handled(secret,
                                         IF VerifyTotpCode(Val(secret), normalized, 1,
                                                           DateNow) = "throws"
                                           THEN "throws" ELSE "invalid")
                   /\ UNCHANGED <<activeWindow, entries, pendingResolvers, acceptedCodes>>
              ELSE /\ activeWindow' = Some(win)
                   /\ entries' = [i \in DOMAIN entries |->
                                    IF i \in Range(pendingResolvers) /\ matches(i)
                                      THEN SettleResolver(entries[i], TRUE)
                                      ELSE entries[i]]
                   /\ pendingResolvers' = SelectSeq(pendingResolvers, LAMBDA i : ~matches(i))
                   /\ lastOp' = handled(secret, "approved")
                   /\ acceptedCodes' = acceptedCodes \cup {normalized}
     /\ UNCHANGED <<now, gateVars, limiterVars, auditVars, vaultVars, soulVars, watchVars,
                    lastSaved, flowVars>>

\* String.prototype.toLowerCase on the first word of a message
ToLowerCase(word) == IF word = "/TOTP-Lock" THEN "/totp-lock" ELSE word

TOTP_LOCK_COMMAND == "/totp-lock"

\* handleTotpLockCommand that does not ask who sent the message
HandleTotpLockCommandFromAnyone(body, allowTextCommands, isAuthorizedSender) ==
  LET ignored == ~allowTextCommands \/ ToLowerCase(body[1]) # TOTP_LOCK_COMMAND
  IN /\ Alive
     /\ lastOp' = [op |-> "handleTotpLockCommand", body |-> body,
                   allowTextCommands |-> allowTextCommands,
                   isAuthorizedSender |-> isAuthorizedSender,
                   queued |-> pendingResolvers,
                   ret |-> IF ignored THEN "null" ELSE "closed"]
     /\ IF ignored
          THEN UNCHANGED <<activeWindow, entries, pendingResolvers>>
          ELSE /\ activeWindow' = Null
               /\ entries' = DrainAllResolvers(FALSE)
               /\ pendingResolvers' = <<>>
     /\ UNCHANGED <<now, gateVars, limiterVars, auditVars, vaultVars, soulVars, watchVars,
                    historyVars, flowVars>>

\* handleTotpLockCommand; body is the message in words; ret is null, "stop"
\* ({shouldContinue: false} without a reply) or "closed" (the reply)
HandleTotpLockCommand(body, allowTextCommands, isAuthorizedSender) ==
  LET ignored == ~allowTextCommands \/ ToLowerCase(body[1]) # TOTP_LOCK_COMMAND
  IN /\ Alive
     /\ lastOp' = [op |-> "handleTotpLockCommand", body |-> body,
                   allowTextCommands |-> allowTextCommands,
                   isAuthorizedSender |-> isAuthorizedSender,
                   queued |-> pendingResolvers,
                   ret |-> IF ignored THEN "null"
                           ELSE IF ~isAuthorizedSender THEN "stop" ELSE "closed"]
     /\ IF ignored \/ ~isAuthorizedSender
          THEN UNCHANGED <<activeWindow, entries, pendingResolvers>>
          ELSE /\ activeWindow' = Null
               /\ entries' = DrainAllResolvers(FALSE)
               /\ pendingResolvers' = <<>>
     /\ UNCHANGED <<now, gateVars, limiterVars, auditVars, vaultVars, soulVars, watchVars,
                    historyVars, flowVars>>

\* ------------------------------------------------------------- soul integrity
\* computeSoulHash: SHA-256 of the UTF-8 bytes, ideal: equal hashes, equal bytes
ComputeSoulHash(content) == <<"sha256">> \o Utf8Encode(content)

\* normalizeKey
NormalizeKey(workspaceDir) ==
  IF Trim(workspaceDir) = <<>> THEN <<"__default__">> ELSE Trim(workspaceDir)

\* storedSoulHashes.get(key) ?? null
StoredGet(key) ==
  IF key \in DOMAIN storedSoulHashes THEN Some(storedSoulHashes[key]) ELSE Null

\* storedSoulHashes.set(key, hash)
StoredSet(key, hash) ==
  [k \in DOMAIN storedSoulHashes \cup {key} |->
     IF k = key THEN hash ELSE storedSoulHashes[k]]

\* verifySoulIntegrity: whether it returns ok
VerifySoulIntegrityOk(content, workspaceDir) ==
  LET stored == StoredGet(NormalizeKey(workspaceDir))
  IN stored = Null \/ ComputeSoulHash(content) = Val(stored)

\* verifySoulIntegrity that records the hash of whatever it is shown
VerifySoulIntegrityStoresAlways(content, workspaceDir) ==
  StoredSet(NormalizeKey(workspaceDir), ComputeSoulHash(content))

\* verifySoulIntegrity: the Map after it
VerifySoulIntegrityStores(content, workspaceDir) ==
  IF StoredGet(NormalizeKey(workspaceDir)) = Null
    THEN StoredSet(NormalizeKey(workspaceDir), ComputeSoulHash(content))
    ELSE storedSoulHashes

\* resolveBootstrapFilesForRun; soul is the entry of SOUL.md among the files
\* left by filterBootstrapFilesForSession, Null when there is none
ResolveBootstrapFilesForRun(workspaceDir, soul) ==
  LET found == soul # Null /\ ~Val(soul).missing /\ Val(soul).content # Null
                 /\ Val(Val(soul).content) # <<>>
      content == Val(Val(soul).content)
      refused == found /\ ~VerifySoulIntegrityOk(content, workspaceDir)
  IN /\ storedSoulHashes' = IF found THEN VerifySoulIntegrityStores(content, workspaceDir)
                                     ELSE storedSoulHashes
     /\ lastOp' = [op |-> "resolveBootstrapFilesForRun", workspaceDir |-> workspaceDir,
                   soul |-> soul, verified |-> found, threw |-> refused,
                   ret |-> IF refused THEN Null ELSE Some(soul)]
     /\ UNCHANGED <<now, activeWindow, entries, pendingResolvers, gateVars, limiterVars,
                    auditVars, vaultVars, watchVars, historyVars, flowVars>>

\* verifySoulIntegrity(content, workspaceDir) called directly; again: the call
\* before it was the same call and was refused
VerifySoulIntegrity(content, workspaceDir) ==
  LET stored == StoredGet(NormalizeKey(workspaceDir))
      ok == VerifySoulIntegrityOk(content, workspaceDir)
  IN /\ storedSoulHashes' = VerifySoulIntegrityStores(content, workspaceDir)
     /\ lastOp' = [op |-> "verifySoulIntegrity", content |-> content,
                   workspaceDir |-> workspaceDir, ok |-> ok,
                   expected |-> IF ok THEN Null ELSE stored,
                   actual |-> IF ok THEN Null ELSE Some(ComputeSoulHash(content)),
                   again |-> /\ lastOp.op = "verifySoulIntegrity"
                             /\ lastOp.content = content
                             /\ lastOp.workspaceDir = workspaceDir
                             /\ ~lastOp.ok]
     /\ UNCHANGED <<now, activeWindow, entries, pendingResolvers, gateVars, limiterVars,
                    auditVars, vaultVars, watchVars, historyVars, flowVars>>

StoreSoulHash(hash, workspaceDir) ==
  /\ storedSoulHashes' = StoredSet(NormalizeKey(workspaceDir), hash)
  /\ lastOp' = [op |-> "storeSoulHash", workspaceDir |-> Some(workspaceDir)]
  /\ UNCHANGED <<now, activeWindow, entries, pendingResolvers, gateVars, limiterVars,
                 auditVars, vaultVars, watchVars, historyVars, flowVars>>

\* clearStoredSoulHash; workspaceDir is Null when the argument is left out
ClearStoredSoulHash(workspaceDir) ==
  /\ storedSoulHashes' =
       IF workspaceDir = Null
         THEN <<>>
         ELSE [k \in DOMAIN storedSoulHashes \ {NormalizeKey(Val(workspaceDir))} |->
                 storedSoulHashes[k]]
  /\ lastOp' = [op |-> "clearStoredSoulHash", workspaceDir |-> workspaceDir]
  /\ UNCHANGED <<now, activeWindow, entries, pendingResolvers, gateVars, limiterVars,
                 auditVars, vaultVars, watchVars, historyVars, flowVars>>

\* ------------------------------------------------------------ watch transcript
TextLength(text) == text.lead + Len(text.rest)

\* String.prototype.slice(0, maxLen)
Slice(text, maxLen) ==
  IF text.lead >= maxLen
    THEN Text(maxLen, <<>>)
    ELSE IF TextLength(text) <= maxLen
           THEN text
           ELSE Text(text.lead, SubSeq(text.rest, 1, maxLen - text.lead))

\* replace(CONTROL_CHAR_PATTERN, "")
RemoveControl(text) == Text(text.lead, SelectSeq(text.rest, LAMBDA ch : ch # "c"))

\* sanitize that cuts the value after removing the control characters
SanitizeCutLast(value, maxLen) ==
  IF value = Null \/ value = Some(EmptyText)
    THEN EmptyText
    ELSE Slice(RemoveControl(Val(value)), maxLen)

\* sanitize: "" for undefined, null and "", else the first maxLen characters
\* without their control characters
Sanitize(value, maxLen) ==
  IF value = Null \/ value = Some(EmptyText)
    THEN EmptyText
    ELSE RemoveControl(Slice(Val(value), maxLen))

\* sanitize(value) || undefined
SanitizeOrUndefined(value) ==
  IF Sanitize(value, MAX_BODY_LENGTH) = EmptyText
    THEN Null
    ELSE Some(Sanitize(value, MAX_BODY_LENGTH))

\* the object that appendWatchTranscript builds from the entry
SanitizedEntry(entry) ==
  [messageId |-> entry.messageId,
   channel |-> "whatsapp",
   chatType |-> entry.chatType,
   chatName |-> SanitizeOrUndefined(entry.chatName),
   senderName |-> SanitizeOrUndefined(entry.senderName),
   senderNumber |-> entry.senderNumber,
   timestamp |-> entry.timestamp,
   body |-> Sanitize(Some(entry.body), MAX_BODY_LENGTH),
   mediaType |-> entry.mediaType,
   quotedMessage |-> SanitizeOrUndefined(entry.quotedMessage),
   isFromMe |-> entry.isFromMe]

\* a string as JSON.stringify writes it: a line feed becomes its escape
JsonString(text) ==
  Text(text.lead, [i \in DOMAIN text.rest |-> IF text.rest[i] = "n" THEN "e" ELSE text.rest[i]])

\* the string that JSON.parse reads from it
JsonParseString(text) ==
  Text(text.lead, [i \in DOMAIN text.rest |-> IF text.rest[i] = "e" THEN "n" ELSE text.rest[i]])

JsonOptional(value) == IF value = Null THEN Null ELSE Some(JsonString(Val(value)))

\* JSON.stringify(sanitized): the members, a member that is undefined left out
JsonStringify(o) ==
  [o EXCEPT !.chatName = JsonOptional(@), !.senderName = JsonOptional(@),
            !.body = JsonString(@), !.quotedMessage = JsonOptional(@)]

\* JSON.parse of a line of the transcript
JsonParse(line) ==
  [line EXCEPT !.chatName = IF @ = Null THEN Null ELSE Some(JsonParseString(Val(@))),
               !.senderName = IF @ = Null THEN Null ELSE Some(JsonParseString(Val(@))),
               !.body = JsonParseString(@),
               !.quotedMessage = IF @ = Null THEN Null ELSE Some(JsonParseString(Val(@)))]

\* the number of lines of all transcript files
TotalLines ==
  LET RECURSIVE Sum(_)
      Sum(fs) == IF fs = {} THEN 0
                 ELSE LET f == CHOOSE x \in fs : TRUE
                      IN Len(transcripts[f]) + Sum(fs \ {f})
  IN Sum(TranscriptFiles)

\* appendWatchTranscript: resolveTranscriptPath makes the directory (mkdirSync
\* may throw, outside the try block); appendFileSync adds the line to the end
\* of the file or throws, and the catch clause only logs
AppendWatchTranscript(accountId, entry, outcome) ==
  LET filePath == TranscriptFile(accountId)
      line == JsonStringify(SanitizedEntry(entry))
  IN /\ TotalLines < MaxLines
     /\ transcripts' = IF outcome = "written"
                         THEN [transcripts EXCEPT ![filePath] = Append(@, line)]
                         ELSE transcripts
     /\ lastOp' = [op |-> "appendWatchTranscript", accountId |-> accountId,
                   entry |-> entry, wrote |-> (outcome = "written"),
                   raised |-> (outcome = "mkdirFails")]
     /\ UNCHANGED <<now, activeWindow, entries, pendingResolvers, gateVars, limiterVars,
                    auditVars, vaultVars, soulVars, historyVars, flowVars>>

Tick ==
  /\ now + MsPerMinute <= MaxNow
  /\ now' = now + MsPerMinute
  /\ lastOp' = [op |-> "tick"]
  /\ UNCHANGED <<activeWindow, entries, pendingResolvers, gateVars, limiterVars, auditVars, vaultVars, soulVars, watchVars, historyVars, flowVars>>

InitExceptFile ==
  /\ now = 0
  /\ activeWindow = Null
  /\ entries = <<>>
  /\ pendingResolvers = <<>>
  /\ lastOp = [op |-> "init"]
  /\ requests = [r \in 1..MaxRequests |-> IdleRequest]
  /\ onTotpPromptCallback = Null
  /\ prompts = <<>>
  /\ auditCalls = <<>>
  /\ buckets = <<>>
  /\ auditFd = Null
  /\ env = Null
  /\ files = [f \in FilePaths |-> Null]
  /\ decryptedSoulContent = Null
  /\ shmCleanupPath = Null
  /\ shutdownHooksRegistered = FALSE
  /\ listeners = [e \in ProcessEvents |-> 0]
  /\ soulCall = Null
  /\ storedSoulHashes = <<>>
  /\ transcripts = [f \in TranscriptFiles |-> <<>>]
  /\ acceptedCodes = {}
  /\ lastSaved = Null
  /\ flows = [f \in 1..MaxFlows |-> "idle"]

\* the state of a process started with no audit file
Init ==
  /\ InitExceptFile
  /\ auditFile = <<>>

Start ==
  \E d \in DurationInputs, a \in ActionsInputs, c \in ChannelInputs, acc \in AccountInputs :
    StartApprovalWindow(d, a, c, acc)

ReadActive == IsApprovalWindowActive

ReadApproved == \E a \in ActionNames : IsActionApproved(a)

Close == CloseApprovalWindow

Wait == \E a \in ActionNames, t \in TimeoutInputs : WaitForApprovalWindow(a, t)

Deadline == \E w \in 1..MaxWaiters : DeadlineFires(w)

SetCallback == \E cb \in CallbackInputs : SetTotpPromptCallback(cb)

Request ==
  \E r \in 1..MaxRequests, cfg \in CfgInputs, p \in ParamsInputs :
    RequestMessageSendApproval(r, cfg, p)

TotpResumes == \E r \in 1..MaxRequests : ResumeTotp(r)

SocketResumes == \E r \in 1..MaxRequests, o \in SocketOutcomes : ResumeSocket(r, o)

\* ---------------------------------------------------- rate limiter, its callers
Record ==
  \E c \in RecordChannelInputs, acc \in AccountIdInputs, t \in NowInputs :
    RecordMessage(c, acc, t)

Check ==
  \E c \in RecordChannelInputs, acc \in AccountIdInputs,
     perMinute \in LimitInputs, perHour \in LimitInputs, t \in NowInputs :
    CheckRateLimit(c, acc, perMinute, perHour, t)

\* checkChannelRateLimit on the channel that has recorded sends, under the
\* configurations that set limits for the channel itself
CheckChannelRecorded ==
  \E cfg \in ChannelOnlyCfgInputs, c \in RecordChannelInputs,
     acc \in AccountIdInputs, t \in NowInputs :
    CheckChannelRateLimit(cfg, c, acc, t)

CheckChannel ==
  \E cfg \in RateCfgInputs, c \in RateChannelInputs, acc \in AccountIdInputs :
    CheckChannelRateLimit(cfg, c, acc, Null)

Resolve ==
  \E cfg \in RateCfgInputs, c \in RateChannelInputs, acc \in AccountIdInputs :
    ResolveChannelRateLimitConfig(cfg, c, acc)

\* the rate limiter's buckets under checks and records
RateNext ==
  \/ Record
  \/ Check
  \/ CheckChannelRecorded

RateSpec == Init /\ [][RateNext]_vars

\* the resolution of the limits of a channel and an account
ConfigNext ==
  \/ Resolve
  \/ CheckChannel

ConfigSpec == Init /\ [][ConfigNext]_vars

\* ------------------------------------------------------- audit log, its callers
AppendEntry ==
  \E e \in AuditEntryInputs, openFails \in BOOLEAN, writeFails \in BOOLEAN :
    AppendAuditEntry(e, openFails, writeFails)

LogAudit ==
  \E p \in AuditParamsInputs, openFails \in BOOLEAN, writeFails \in BOOLEAN :
    LogOutboundAudit(p, openFails, writeFails)

CloseLog == CloseAuditLog

\* the file may hold the lines of earlier runs
AuditInit ==
  /\ InitExceptFile
  /\ auditFile \in EarlierContentInputs

\* the audit log under appends and closes
AuditNext ==
  \/ AppendEntry
  \/ LogAudit
  \/ CloseLog

AuditSpec == AuditInit /\ [][AuditNext]_vars

\* ------------------------------------------------------------ vault, its callers
Seal ==
  \E pt \in PlaintextInputs, p \in PassphraseInputs, salt \in SaltInputs, iv \in IvInputs :
    Encrypt(pt, p, salt, iv)

Tamper == \E part \in BlobParts : Alter(part)

Unseal == \E p \in PassphraseInputs : Decrypt(p)

\* encryptContent and decryptContent on drawn plaintexts, passphrases and blobs
CryptoNext ==
  \/ Seal
  \/ Tamper
  \/ Unseal

CryptoSpec == Init /\ [][CryptoNext]_vars

Load ==
  \E encryptFails \in BOOLEAN, erase \in EraseOutcomes, shm \in ShmOutcomes,
     salt \in VaultSaltInputs, iv \in VaultIvInputs :
    LoadSoulContent(encryptFails, erase, shm, salt, iv)

DecryptToMemory == \E p \in PassphraseInputs, shm \in ShmOutcomes : CallDecryptSoulToMemory(p, shm)

Wipe == \E wipe \in WipeOutcomes : WipeSoulVault(wipe)

Ends ==
  \E event \in ProcessEvents, wipe \in WipeOutcomes, landed \in BOOLEAN :
    ProcessEnds(event, wipe, landed)

SetEnv == \E v \in EnvInputs : SetPassphraseEnv(v)

WriteSoul == \E content \in SoulInputs : WriteSoulFile(content)

TamperVault == \E part \in BlobParts : AlterVault(part)

\* the vault under loads, rotations of the passphrase, cleanups and exits
VaultNext ==
  \/ Load
  \/ DecryptToMemory
  \/ MirrorWritten
  \/ Wipe
  \/ Ends
  \/ SetEnv
  \/ WriteSoul
  \/ TamperVault

VaultSpec == Init /\ [][VaultNext]_vars

SaveSecret ==
  \E s \in SecretInputs, salt \in VaultSaltInputs, iv \in VaultIvInputs :
    SaveTotpSecret(s, salt, iv)

LoadSecret == \E unreadable \in SUBSET {SecretPath, SecretPlaintextPath} : LoadTotpSecret(unreadable)

\* the secret store under saves, loads and changes of the passphrase
StoreNext ==
  \/ SaveSecret
  \/ LoadSecret
  \/ SetEnv

StoreSpec == Init /\ [][StoreNext]_vars

Enrol == \E s \in Base32SecretInputs, salt \in VaultSaltInputs, iv \in VaultIvInputs : SetupTotp(s, salt, iv)

HandleCode ==
  \E c \in CodeCallInputs :
    HandleTotpCodeInput(c.body, c.allowTextCommands, c.isAuthorizedSender, c.cfg,
                        "telegram")

Lock ==
  \E c \in LockCallInputs :
    HandleTotpLockCommand(c.body, c.allowTextCommands, c.isAuthorizedSender)

\* the chat commands of the TOTP approval over the approval window manager
CommandNext ==
  \/ HandleCode
  \/ Lock
  \/ Enrol
  \/ Wait
  \/ Deadline
  \/ Close
  \/ Tick

CommandSpec == Init /\ [][CommandNext]_vars

ResolveBootstrap ==
  \E w \in WorkspaceInputs, soul \in SoulFileInputs : ResolveBootstrapFilesForRun(w, soul)

StoreHash ==
  \E c \in SoulContentInputs, w \in WorkspaceInputs : StoreSoulHash(ComputeSoulHash(c), w)

ClearHash == \E w \in {Null} \cup {Some(x) : x \in WorkspaceInputs} : ClearStoredSoulHash(w)

VerifySoul ==
  \E c \in SoulContentInputs, w \in WorkspaceInputs : VerifySoulIntegrity(c, w)

\* the sessions of the workspaces and the recorded hashes
SoulNext ==
  \/ ResolveBootstrap
  \/ VerifySoul
  \/ StoreHash
  \/ ClearHash

SoulSpec == Init /\ [][SoulNext]_vars

\* ------------------------------------------------------------ TOTP codes, called directly
\* the secrets: base32 strings of one and two characters, one with white
\* space, one with a character outside the alphabet
TotpSecretInputs == {<<"a">>, <<"a", "a">>, <<" ", "a">>, <<"H">>}

\* the times: the first and the last millisecond of the time steps 0..MaxSteps
TimeInputs ==
  {k * TOTP_STEP_SECONDS * 1000 + d : k \in 0..MaxSteps,
                                     d \in {0, TOTP_STEP_SECONDS * 1000 - 1}}

WindowInputs == 0..MaxWindow

\* the codes: those of the keys "a" and "aa" for the time steps 0..MaxSteps,
\* one of them with white space around it, six digits that are no code, five
\* digits, six letters
TotpCodeInputs ==
  {CodeString(TOTP_DIGITS, TRUE, FALSE, <<k, c>>) :
     k \in {<<"a">>, <<"a", "a">>}, c \in 0..MaxSteps}
  \cup {CodeString(TOTP_DIGITS, TRUE, TRUE, <<<<"a">>, 0>>),
        CodeString(TOTP_DIGITS, TRUE, FALSE, <<<<>>, 0>>),
        CodeString(TOTP_DIGITS - 1, TRUE, FALSE, <<<<>>, 0>>),
        CodeString(TOTP_DIGITS, FALSE, FALSE, <<<<>>, 0>>)}

\* a call of generateTotpCode(secret, timeMs)
GenerateCode ==
  \E secret \in TotpSecretInputs, timeMs \in TimeInputs :
    /\ lastOp' = [op |-> "generateTotpCode", secret |-> secret, timeMs |-> timeMs,
                  ret |-> IF GenerateTotpCodeThrows(secret, timeMs)
                            THEN Throws
                            ELSE Returns(GenerateTotpCode(secret, timeMs))]
    /\ UNCHANGED <<now, activeWindow, entries, pendingResolvers, gateVars, limiterVars,
                   auditVars, vaultVars, soulVars, watchVars, historyVars, flowVars>>

\* a call of verifyTotpCode(secret, code, {window, timeMs})
VerifyCode ==
  \E secret \in TotpSecretInputs, code \in TotpCodeInputs, window \in WindowInputs,
     timeMs \in TimeInputs :
    /\ lastOp' = [op |-> "verifyTotpCode", secret |-> secret, code |-> code,
                  window |-> window, timeMs |-> timeMs,
                  ret |-> VerifyTotpCode(secret, code, window, timeMs)]
    /\ UNCHANGED <<now, activeWindow, entries, pendingResolvers, gateVars, limiterVars,
                   auditVars, vaultVars, soulVars, watchVars, historyVars, flowVars>>

\* generateTotpCode and verifyTotpCode on drawn secrets, codes, windows, times
TotpNext ==
  \/ GenerateCode
  \/ VerifyCode

TotpSpec == Init /\ [][TotpNext]_vars

\* ------------------------------------------------------------ watch transcript, its callers
AppendTranscript ==
  \E accountId \in WatchAccountInputs, entry \in WatchEntryInputs,
     outcome \in WatchOutcomes :
    AppendWatchTranscript(accountId, entry, outcome)

\* appendWatchTranscript called for drawn accounts and entries
WatchNext == AppendTranscript

WatchSpec == Init /\ [][WatchNext]_vars

\* ------------------------------------------------------------ sending flows, interleaved
FlowCheck == \E f \in 1..MaxFlows : FlowChecks(f)

FlowRecord == \E f \in 1..MaxFlows : FlowRecords(f)

\* flows that check, send and record, suspended while they send
FlowNext ==
  \/ FlowCheck
  \/ FlowRecord
  \/ Tick

FlowSpec == Init /\ [][FlowNext]_vars

\* the same flows, one after the other
SerialFlowNext ==
  \/ \E f \in 1..MaxFlows : FlowChecksAlone(f)
  \/ FlowRecord
  \/ Tick

SerialFlowSpec == Init /\ [][SerialFlowNext]_vars

\* the approval window manager under direct calls
Next ==
  \/ Start
  \/ ReadActive
  \/ ReadApproved
  \/ Close
  \/ Wait
  \/ Deadline
  \/ Tick

Spec == Init /\ [][Next]_vars

\* Time passes, and the event loop runs the callback of every timer that is due.
LiveSpec ==
  /\ Init
  /\ [][Next]_vars
  /\ WF_vars(Tick)
  /\ \A w \in 1..MaxWaiters : WF_vars(DeadlineFires(w))

\* the trust gate over the approval window manager
GateNext ==
  \/ Request
  \/ TotpResumes
  \/ SocketResumes
  \/ SetCallback
  \/ Start
  \/ Close
  \/ Deadline
  \/ Tick

GateSpec == Init /\ [][GateNext]_vars

TypeOK ==
  /\ now \in 0..MaxNow
  /\ Len(entries) <= MaxWaiters
  /\ Range(pendingResolvers) \subseteq DOMAIN entries


\* ======================================================================
\* Properties of the approval window manager
\* ======================================================================

Waiters == DOMAIN entries

Queued == Range(pendingResolvers)

\* the approved set a startApprovalWindow call was given
GivenActions(op) == OrElse(op.actions, {"message.send"})

\* C1: the outcome of every waiter is set at most once: entry.resolve is called
\* at most once per waiter, and once it has been called no later
\* startApprovalWindow, closeApprovalWindow or deadline changes what it was
\* called with.
C1_SettledAtMostOnce ==
  /\ [](\A w \in Waiters : Len(entries[w].calls) <= 1)
  /\ [][\A w \in Waiters :
          entries[w].calls # <<>> => entries'[w].calls = entries[w].calls]_vars

\* a waiter denied by its own deadline, and a window opened later for its action
C1_Witness ==
  /\ lastOp.op = "startApprovalWindow"
  /\ \E w \in Waiters :
       /\ entries[w].timer = "fired"
       /\ entries[w].calls = <<FALSE>>
       /\ entries[w].action \in GivenActions(lastOp)

\* C2: no half-open window: whenever isActionApproved(a) would return true,
\* the pending array holds no unsettled waiter whose action is a.
C2_NoHalfOpenWindow ==
  \A a \in ActionNames :
    (/\ activeWindow # Null
     /\ now < Val(activeWindow).expiresAt
     /\ a \in Val(activeWindow).approvedActions)
    => \A w \in Queued : ~(entries[w].action = a /\ ~entries[w].settled)

\* a window open for an action whose waiter was released, another waiter still queued
C2_Witness ==
  /\ activeWindow # Null
  /\ now < Val(activeWindow).expiresAt
  /\ \E w \in Waiters :
       /\ entries[w].action \in Val(activeWindow).approvedActions
       /\ entries[w].calls = <<TRUE>>
  /\ Queued # {}

\* C3: when startApprovalWindow returns, every waiter queued at the call whose
\* action is in the new approved set has been resolved true and is out of the
\* array; every other queued waiter is still queued, unchanged, unsettled,
\* its timer armed.
C3_StartReleasesAllMatching ==
  [][lastOp'.op = "startApprovalWindow" =>
       \A w \in Queued :
         IF entries[w].action \in GivenActions(lastOp')
           THEN /\ entries'[w].calls = <<TRUE>>
                /\ entries'[w].settled
                /\ w \notin Range(pendingResolvers')
           ELSE /\ w \in Range(pendingResolvers')
                /\ entries'[w] = entries[w]
                /\ ~entries'[w].settled
                /\ entries'[w].timer = "armed"]_vars

\* one call that released two queued waiters
C3_Witness ==
  /\ lastOp.op = "startApprovalWindow"
  /\ \E v, w \in Range(lastOp.queued) :
       /\ v # w
       /\ entries[v].calls = <<TRUE>>
       /\ entries[w].calls = <<TRUE>>

\* C4: when closeApprovalWindow returns no window exists, the pending array is
\* empty and every waiter queued and unsettled at the call has been resolved
\* false.
C4_CloseDeniesAll ==
  [][lastOp'.op = "closeApprovalWindow" =>
       /\ activeWindow' = Null
       /\ pendingResolvers' = <<>>
       /\ \A w \in Queued :
            ~entries[w].settled => entries'[w].calls = <<FALSE>>]_vars

\* a close that denied two waiters of different actions, one of them with
\* time left before its deadline
C4_Witness ==
  /\ lastOp.op = "closeApprovalWindow"
  /\ \E v, w \in Range(lastOp.queued) :
       /\ entries[v].action # entries[w].action
       /\ entries[v].calls = <<FALSE>>
       /\ entries[w].calls = <<FALSE>>
       /\ now < entries[w].deadline

\* C5: a waiter is resolved false only by its own deadline or by
\* closeApprovalWindow; a read that discards an expired window, and a
\* startApprovalWindow that does not approve the waiter's action, leave the
\* waiter as it was and in the array.
C5_DeniedOnlyByDeadlineOrClose ==
  [][/\ \A w \in Waiters :
          (entries[w].calls = <<>> /\ entries'[w].calls = <<FALSE>>)
          => \/ lastOp'.op = "closeApprovalWindow"
             \/ (lastOp'.op = "deadline" /\ lastOp'.waiter = w)
     /\ lastOp'.op \in {"isApprovalWindowActive", "isActionApproved"}
          => entries' = entries /\ pendingResolvers' = pendingResolvers
     /\ lastOp'.op = "startApprovalWindow"
          => \A w \in Queued :
               entries[w].action \notin GivenActions(lastOp')
               => entries'[w] = entries[w] /\ w \in Range(pendingResolvers')]_vars

\* a read that discarded an expired window while a waiter was queued
C5_Witness ==
  /\ lastOp.op = "isActionApproved"
  /\ lastOp.expired
  /\ \E w \in Queued : ~entries[w].settled /\ entries[w].timer = "armed"

\* C6: waitForApprovalWindow(action, timeoutMs) called while
\* isActionApproved(action) is true returns a promise already resolved true
\* and changes nothing: the window, the waiters and the pending array are as
\* before, so nothing was queued and no timer armed.
C6_ApprovedWaitChangesNothing ==
  [][(/\ lastOp'.op = "waitForApprovalWindow"
      /\ activeWindow # Null
      /\ now < Val(activeWindow).expiresAt
      /\ lastOp'.action \in Val(activeWindow).approvedActions)
     => /\ lastOp'.promise = 0
        /\ entries' = entries
        /\ pendingResolvers' = pendingResolvers
        /\ activeWindow' = activeWindow]_vars

\* a wait that returned at once while another waiter stayed queued
C6_Witness ==
  /\ lastOp.op = "waitForApprovalWindow"
  /\ lastOp.promise = 0
  /\ Queued # {}


\* C7 as stated: every waiter is eventually resolved; it is resolved true if a
\* startApprovalWindow covering its action happens before its deadline, and
\* false when its deadline fires on it unsettled.
C7_Original ==
  /\ \A w \in 1..MaxWaiters :
       (w \in Waiters) ~> (w \in Waiters /\ entries[w].calls # <<>>)
  /\ [][\A w \in Waiters :
          /\ (/\ lastOp'.op = "startApprovalWindow"
              /\ entries[w].action \in GivenActions(lastOp')
              /\ now < entries[w].deadline)
             => entries'[w].calls = <<TRUE>>
          /\ (/\ entries[w].calls = <<>>
              /\ lastOp'.op = "deadline"
              /\ lastOp'.waiter = w)
             => entries'[w].calls = <<FALSE>>]_vars

\* C7: every waiter is eventually resolved, at the latest when its deadline
\* fires; a waiter not yet settled is resolved true by a startApprovalWindow
\* covering its action and false by its deadline firing, so it is resolved
\* true if such a start comes before the deadline fires and before any
\* closeApprovalWindow.
C7_EventuallyResolved ==
  /\ \A w \in 1..MaxWaiters :
       (w \in Waiters) ~> (w \in Waiters /\ entries[w].calls # <<>>)
  /\ [][\A w \in Waiters :
          entries[w].calls = <<>> =>
            /\ (/\ lastOp'.op = "startApprovalWindow"
                /\ entries[w].action \in GivenActions(lastOp'))
               => entries'[w].calls = <<TRUE>>
            /\ (lastOp'.op = "deadline" /\ lastOp'.waiter = w)
               => entries'[w].calls = <<FALSE>>]_vars

\* a waiter that nothing touched until its deadline fired and denied it
C7_Witness ==
  /\ lastOp.op = "deadline"
  /\ entries[lastOp.waiter].calls = <<FALSE>>
  /\ entries[lastOp.waiter].timer = "fired"
  /\ now >= entries[lastOp.waiter].deadline

\* C8: isActionApproved(a) returns true exactly when a window exists, now is
\* before its expiresAt and a is in its approved set; a read at or after
\* expiresAt discards the window, and only startApprovalWindow creates a
\* window, so later reads return false until the next startApprovalWindow.
C8_ApprovedIffActiveAndListed ==
  [][/\ lastOp'.op = "isActionApproved" =>
          /\ lastOp'.ret = (/\ activeWindow # Null
                            /\ now < Val(activeWindow).expiresAt
                            /\ lastOp'.action \in Val(activeWindow).approvedActions)
          /\ (activeWindow # Null /\ now >= Val(activeWindow).expiresAt)
               => activeWindow' = Null
          /\ activeWindow = Null => activeWindow' = Null
     /\ (activeWindow = Null /\ activeWindow' # Null)
          => lastOp'.op = "startApprovalWindow"]_vars

\* a read that found the window expired, discarded it and returned false
C8_Witness ==
  /\ lastOp.op = "isActionApproved"
  /\ lastOp.expired
  /\ ~lastOp.ret
  /\ activeWindow = Null

\* C9: startApprovalWindow leaves one window, whose expiresAt is now plus the
\* duration and whose approved set is exactly the given actions (default
\* {"message.send"}), whatever window was there before.
C9_StartReplacesWindow ==
  [][lastOp'.op = "startApprovalWindow" =>
       /\ Cardinality(activeWindow') = 1
       /\ Val(activeWindow').expiresAt = now + lastOp'.durationMinutes * 60 * 1000
       /\ Val(activeWindow').approvedActions = GivenActions(lastOp')]_vars

\* a window replaced by one that ends sooner and no longer approves an action
C9_Witness ==
  /\ lastOp.op = "startApprovalWindow"
  /\ lastOp.dropped
  /\ lastOp.shortened

\* ======================================================================
\* Properties of the trust gate
\* ======================================================================

\* C10: in TOTP mode, whenever requestMessageSendApproval returns allowed=true
\* after having been suspended in waitForApprovalWindow,
\* isActionApproved("message.send") holds at the moment it returns.
C10_AllowedOnlyWhileApproved ==
  [][\A r \in 1..MaxRequests :
       (/\ requests[r].pc = "awaitTotp"
        /\ requests'[r].pc = "done"
        /\ Val(requests'[r].result).allowed)
       => (/\ activeWindow' # Null
           /\ now' < Val(activeWindow').expiresAt
           /\ "message.send" \in Val(activeWindow').approvedActions)]_vars

\* what the configuration of a request says, read off its fields
TrustLevelOf(cfg) == IF cfg.trustLevel = Null THEN 0 ELSE Val(cfg.trustLevel)

RequireApprovalOf(cfg) ==
  IF cfg.requireApproval = Null THEN {"message.send"} ELSE Val(cfg.requireApproval)

Gated(cfg) == TrustLevelOf(cfg) >= 1 /\ "message.send" \in RequireApprovalOf(cfg)

TotpMode(cfg) == cfg.approvalMode = Some("totp")

\* C11: when trustLevel < 1 or "message.send" is not in requireApproval,
\* requestMessageSendApproval returns {allowed: true} at once in either mode:
\* no audit call, no prompt, no waiter, the window (even an expired one) left
\* as it was, and no request to the socket.
C11_UngatedHasNoEffect ==
  [][(lastOp'.op = "requestMessageSendApproval" /\ ~Gated(lastOp'.cfg)) =>
       LET r == lastOp'.request
       IN /\ requests'[r].pc = "done"
          /\ Val(requests'[r].result).allowed
          /\ Val(requests'[r].result).decision = "undefined"
          /\ ~Val(requests'[r].result).pendingTotp
          /\ \A q \in (1..MaxRequests) \ {r} : requests'[q] = requests[q]
          /\ UNCHANGED <<auditCalls, prompts, entries, pendingResolvers,
                         activeWindow, onTotpPromptCallback>>]_vars

\* an ungated request in TOTP mode, made with trust level 1 while an expired
\* window was still stored: the window is still there
C11_Witness ==
  /\ lastOp.op = "requestMessageSendApproval"
  /\ ~Gated(lastOp.cfg)
  /\ TrustLevelOf(lastOp.cfg) = 1
  /\ TotpMode(lastOp.cfg)
  /\ activeWindow # Null
  /\ now >= Val(activeWindow).expiresAt
  /\ onTotpPromptCallback # Null
  /\ Val(requests[lastOp.request].result).allowed


\* C12: in socket mode, the default, a gated request is allowed exactly when
\* the exec-approval request returns allow-once or allow-always; another
\* decision, no decision (null) and a thrown error give allowed = false, and
\* the call always ends by returning a result, never by throwing.
C12_SocketFailsClosed ==
  [][/\ lastOp'.op = "resumeSocket" =>
          LET r == lastOp'.request
          IN /\ requests'[r].pc = "done"
             /\ requests'[r].result # Null
             /\ Val(requests'[r].result).allowed
                  = (lastOp'.outcome \in {"allow-once", "allow-always"})
             /\ Val(requests'[r].result).allowed
                  => Val(requests'[r].result).decision = lastOp'.outcome
     /\ (/\ lastOp'.op = "requestMessageSendApproval"
         /\ Gated(lastOp'.cfg)
         /\ ~TotpMode(lastOp'.cfg)) =>
          LET r == lastOp'.request
          IN \/ requests'[r].pc = "awaitSocket"
             \/ /\ requests'[r].pc = "done"
                /\ ~Val(requests'[r].result).allowed
     /\ \A r \in 1..MaxRequests :
          requests'[r].pc \in {"idle", "awaitTotp", "awaitSocket", "done"}]_vars

\* the socket request failed with an error and the call returned a denial
C12_Witness ==
  /\ lastOp.op = "resumeSocket"
  /\ lastOp.outcome = "throw"
  /\ requests[lastOp.request].pc = "done"
  /\ ~Val(requests[lastOp.request].result).allowed
  /\ Val(requests[lastOp.request].result).decision = "null"


\* the requests that return in this step with allowed = false
ReturningDenied ==
  {r \in 1..MaxRequests :
     /\ requests[r].pc # "done"
     /\ requests'[r].pc = "done"
     /\ ~Val(requests'[r].result).allowed}

\* C13: in both modes a call that returns allowed = false has made exactly one
\* logOutboundAudit call, with blocked = true, blockReason "trust_gate" and its
\* own channel, recipient, whole content and sessionId; a call that returns
\* allowed = true has made none.  (Audit calls are made only in the step in
\* which a call returns a denial, one per such call.)
C13_DenialAuditedOnce ==
  [][IF ReturningDenied = {}
       THEN auditCalls' = auditCalls
       ELSE \E r \in ReturningDenied :
              /\ ReturningDenied = {r}
              /\ auditCalls' = Append(auditCalls,
                   [channel |-> Val(requests'[r].params).channel,
                    recipient |-> Val(requests'[r].params).recipient,
                    content |-> Val(requests'[r].params).content,
                    blocked |-> TRUE,
                    blockReason |-> "trust_gate",
                    sessionId |-> Val(requests'[r].params).sessionId])]_vars

\* two calls with different session ids, one denied in each mode (a waiter
\* exists only for a TOTP request), each audited with its own session id, the
\* content being longer than the prompt's preview
C13_Witness ==
  /\ \A r \in 1..2 : requests[r].pc = "done" /\ ~Val(requests[r].result).allowed
  /\ Val(requests[1].params).sessionId # Val(requests[2].params).sessionId
  /\ Val(requests[1].result).pendingTotp # Val(requests[2].result).pendingTotp
  /\ Len(auditCalls) = 2
  /\ {auditCalls[1].sessionId, auditCalls[2].sessionId} = {Null, Some("s1")}
  /\ auditCalls[1].content.length > 100


\* isActionApproved("message.send") as the window and the clock stand
SendApprovedNow ==
  /\ activeWindow # Null
  /\ now < Val(activeWindow).expiresAt
  /\ "message.send" \in Val(activeWindow).approvedActions

\* C14: in TOTP mode with no window approving "message.send", a gated request
\* calls the registered prompt callback exactly once, before its waiter exists,
\* then waits in waitForApprovalWindow("message.send", 120000); when that wait
\* resolves false the request returns allowed = false, pendingTotp = true and
\* the prompt text it emitted, after exactly one audit call with blockReason
\* "trust_gate".
C14_PromptThenWaitThenDeny ==
  [][/\ (/\ lastOp'.op = "requestMessageSendApproval"
         /\ Gated(lastOp'.cfg)
         /\ TotpMode(lastOp'.cfg)
         /\ ~SendApprovedNow) =>
          LET r == lastOp'.request
              w == requests'[r].promise
              text == Val(requests'[r].promptResult).promptMessage
          IN /\ requests'[r].pc = "awaitTotp"
             /\ w = Len(entries) + 1
             /\ Len(entries') = w
             /\ entries'[w].action = "message.send"
             /\ entries'[w].deadline = now + 120000
             /\ entries'[w].calls = <<>>
             /\ pendingResolvers' = Append(pendingResolvers, w)
             /\ auditCalls' = auditCalls
             /\ text # Null
             /\ Val(text).channel = Val(requests'[r].params).channel
             /\ Val(text).recipient = Val(requests'[r].params).recipient
             /\ IF onTotpPromptCallback = Null
                  THEN prompts' = prompts
                  ELSE /\ Len(prompts') = Len(prompts) + 1
                       /\ SubSeq(prompts', 1, Len(prompts)) = prompts
                       /\ prompts'[Len(prompts')].callback = Val(onTotpPromptCallback)
                       /\ prompts'[Len(prompts')].message = Val(text)
                       /\ prompts'[Len(prompts')].waitersAtCall < w
     /\ (/\ lastOp'.op = "resumeTotp"
         /\ entries[requests[lastOp'.request].promise].calls = <<FALSE>>) =>
          LET r == lastOp'.request
              res == Val(requests'[r].result)
          IN /\ requests'[r].pc = "done"
             /\ ~res.allowed
             /\ res.pendingTotp
             /\ res.promptMessage = Val(requests[r].promptResult).promptMessage
             /\ res.promptMessage # Null
             /\ Len(auditCalls') = Len(auditCalls) + 1
             /\ SubSeq(auditCalls', 1, Len(auditCalls)) = auditCalls
             /\ auditCalls'[Len(auditCalls')].blockReason = "trust_gate"
             /\ prompts' = prompts]_vars

\* a request that prompted the registered callback once, waited until its
\* deadline fired and returned the pending result, audited once
C14_Witness ==
  /\ lastOp.op = "resumeTotp"
  /\ entries[requests[lastOp.request].promise].calls = <<FALSE>>
  /\ entries[requests[lastOp.request].promise].timer = "fired"
  /\ Val(requests[lastOp.request].result).pendingTotp
  /\ Len(prompts) = 1
  /\ Val(requests[lastOp.request].result).promptMessage = Some(prompts[1].message)
  /\ Len(auditCalls) = 1


\* C15: in TOTP mode, a gated request that arrives while
\* isActionApproved("message.send") is true returns {allowed: true, decision:
\* "allow-once"} at once, without prompt, waiter or audit call; this holds for
\* every request made while the window stays active.
C15_OpenWindowAllowsAtOnce ==
  [][(/\ lastOp'.op = "requestMessageSendApproval"
      /\ Gated(lastOp'.cfg)
      /\ TotpMode(lastOp'.cfg)
      /\ SendApprovedNow) =>
       LET r == lastOp'.request
       IN /\ requests'[r].pc = "done"
          /\ Val(requests'[r].result).allowed
          /\ Val(requests'[r].result).decision = "allow-once"
          /\ ~Val(requests'[r].result).pendingTotp
          /\ UNCHANGED <<prompts, entries, pendingResolvers, auditCalls, activeWindow>>]_vars

\* the second of two requests allowed under one window, a prompt callback being
\* registered and no waiter ever created
C15_Witness ==
  /\ lastOp.op = "requestMessageSendApproval"
  /\ lastOp.request = 2
  /\ TotpMode(lastOp.cfg)
  /\ \A r \in 1..2 : /\ requests[r].pc = "done"
                     /\ Val(requests[r].result).decision = "allow-once"
  /\ SendApprovedNow
  /\ onTotpPromptCallback # Null
  /\ entries = <<>>
  /\ prompts = <<>>
  /\ auditCalls = <<>>


\* ======================================================================
\* Properties of the rate limiter
\* ======================================================================

\* the timestamps stored for the bucket an operation names
StoredFor(op) == BucketsGet(BucketKey(op.channel, op.accountId))

\* how many of the timestamps in list are at or after cutoff
CountSince(list, cutoff) == Cardinality({i \in DOMAIN list : list[i] >= cutoff})

\* C16: checkRateLimit returns allowed = false exactly when maxPerMinute is set
\* and at least maxPerMinute stored timestamps of the key are >= now - 60000,
\* or maxPerHour is set and at least maxPerHour of them are >= now - 3600000;
\* it returns allowed = true otherwise, also when no limit is set.
C16_DeniedIffWindowFull ==
  lastOp.op = "checkRateLimit" =>
    (~lastOp.ret.allowed) =
      (\/ /\ lastOp.maxPerMinute # Null
          /\ CountSince(StoredFor(lastOp), lastOp.now - 60000) >= Val(lastOp.maxPerMinute)
       \/ /\ lastOp.maxPerHour # Null
          /\ CountSince(StoredFor(lastOp), lastOp.now - 3600000) >= Val(lastOp.maxPerHour))

\* C17: checkRateLimit and checkChannelRateLimit leave the map of buckets as it
\* was, whatever they return and whatever they pruned for their own count.
C17_CheckKeepsBuckets ==
  [][lastOp'.op \in {"checkRateLimit", "checkChannelRateLimit"} =>
       buckets' = buckets]_vars

\* a check that was denied on the count left after it had skipped an expired
\* timestamp, which is still stored
C17_Witness ==
  /\ lastOp.op = "checkChannelRateLimit"
  /\ ~lastOp.ret.allowed
  /\ Len(StoredFor(lastOp)) = 3
  /\ StoredFor(lastOp)[1] < lastOp.now - 3600000
  /\ Val(lastOp.ret.reason).count = 2

\* C18: after recordMessage(channel, accountId, now), whatever the now values
\* of this and the earlier calls, the bucket of the key is in ascending order,
\* ends with now and holds no timestamp older than now - 1 hour.
C18_BucketAscendingAndPruned ==
  lastOp.op = "recordMessage" =>
    LET list == StoredFor(lastOp)
    IN /\ list # <<>>
       /\ list[Len(list)] = lastOp.now
       /\ \A i \in 1..(Len(list) - 1) : list[i] <= list[i + 1]
       /\ \A i \in DOMAIN list : list[i] >= lastOp.now - 3600000


\* the channel's own configuration and the configuration of the account, as
\* the cfg of an operation holds them (Null when there is none)
ChannelCfgOf(op) ==
  IF op.cfg.channels = Null THEN Null ELSE Val(op.cfg.channels)[op.channel]

AccountCfgOf(op) ==
  IF ChannelCfgOf(op) = Null \/ op.accountId = Null
    THEN Null
    ELSE Val(ChannelCfgOf(op)).accounts[Val(op.accountId)]

\* the value of one field: the account's when the account defines it, the
\* channel's otherwise
ExpectedMinute(op) ==
  IF AccountCfgOf(op) # Null /\ Val(AccountCfgOf(op)).maxMessagesPerMinute # Null
    THEN Val(AccountCfgOf(op)).maxMessagesPerMinute
    ELSE IF ChannelCfgOf(op) = Null THEN Null
         ELSE Val(ChannelCfgOf(op)).maxMessagesPerMinute

ExpectedHour(op) ==
  IF AccountCfgOf(op) # Null /\ Val(AccountCfgOf(op)).maxMessagesPerHour # Null
    THEN Val(AccountCfgOf(op)).maxMessagesPerHour
    ELSE IF ChannelCfgOf(op) = Null THEN Null
         ELSE Val(ChannelCfgOf(op)).maxMessagesPerHour

ExpectedOverflow(op) ==
  IF AccountCfgOf(op) # Null /\ Val(AccountCfgOf(op)).rateLimitOverflow # Null
    THEN Val(AccountCfgOf(op)).rateLimitOverflow
    ELSE IF ChannelCfgOf(op) = Null THEN Null
         ELSE Val(ChannelCfgOf(op)).rateLimitOverflow

\* C19: for every channel and account resolveChannelRateLimitConfig resolves
\* the minute limit, the hour limit and the overflow policy each on its own,
\* from the account when the account defines the field and from the channel
\* otherwise; checkChannelRateLimit reports overflow "queue" when neither
\* defines a policy.
C19_ResolvedFieldByField ==
  /\ lastOp.op = "resolveChannelRateLimitConfig" =>
       /\ lastOp.ret.maxMessagesPerMinute = ExpectedMinute(lastOp)
       /\ lastOp.ret.maxMessagesPerHour = ExpectedHour(lastOp)
       /\ lastOp.ret.rateLimitOverflow = ExpectedOverflow(lastOp)
  /\ (lastOp.op = "checkChannelRateLimit" /\ ExpectedOverflow(lastOp) = Null) =>
       lastOp.ret.overflow = "queue"


\* ======================================================================
\* Properties of the audit log
\* ======================================================================

AppendOps == {"appendAuditEntry", "logOutboundAudit"}

\* C20: the audit file only grows at its end: every step leaves the lines
\* already in the file in place and in order, a successful append adds exactly
\* one line, the line of its entry, after them, and nothing else (a failed
\* append, closeAuditLog, reopening the file) changes the file.
C20_AppendOnly ==
  [][/\ Len(auditFile') >= Len(auditFile)
     /\ SubSeq(auditFile', 1, Len(auditFile)) = auditFile
     /\ IF lastOp'.op \in AppendOps /\ lastOp'.wrote
          THEN /\ Len(auditFile') = Len(auditFile) + 1
               /\ auditFile'[Len(auditFile')].timestamp = lastOp'.entry.timestamp
               /\ auditFile'[Len(auditFile')].recipient = lastOp'.entry.recipient
               /\ auditFile'[Len(auditFile')].sessionId = lastOp'.entry.sessionId
               /\ auditFile'[Len(auditFile')].messageContent.id
                    = lastOp'.entry.messageContent.id
          ELSE auditFile' = auditFile]_vars

\* an append that had to open the file again, after a close, and wrote its
\* line behind the line of an earlier run and the line of an earlier append
C20_Witness ==
  /\ lastOp.op = "appendAuditEntry"
  /\ lastOp.opened
  /\ lastOp.wrote
  /\ Len(auditFile) = 3
  /\ auditFile[1].recipient = "bob"
  /\ auditFile[2].messageContent.id = "m3"
  /\ auditFile[3].messageContent.id = "m2"


\* C21: a line written by appendAuditEntry carries the entry's content cut to
\* its first 10,000 characters when the content is longer, the content as it
\* is when it has 10,000 characters or fewer, and every other field unchanged.
C21_LineTruncatesContentOnly ==
  [][(lastOp'.op \in AppendOps /\ Len(auditFile') > Len(auditFile)) =>
       LET line == auditFile'[Len(auditFile')]
           entry == lastOp'.entry
       IN /\ line.messageContent.id = entry.messageContent.id
          /\ line.messageContent.length =
               IF entry.messageContent.length > 10000
                 THEN 10000
                 ELSE entry.messageContent.length
          /\ line.timestamp = entry.timestamp
          /\ line.targetChannel = entry.targetChannel
          /\ line.recipient = entry.recipient
          /\ line.blocked = entry.blocked
          /\ line.blockReason = entry.blockReason
          /\ line.sessionId = entry.sessionId]_vars

\* the file holds a line cut to 10,000 characters, a line of exactly 10,000
\* characters and a short one
C21_Witness ==
  /\ lastOp.op = "appendAuditEntry"
  /\ lastOp.wrote
  /\ lastOp.entry.messageContent.length = 10001
  /\ Len(auditFile) = 3
  /\ auditFile[1].messageContent = [id |-> "m3", length |-> 101]
  /\ auditFile[2].messageContent = [id |-> "m1", length |-> 10000]
  /\ auditFile[3].messageContent = [id |-> "m2", length |-> 10000]

\* C22: appendAuditEntry and logOutboundAudit never raise: when the open or
\* the write fails the call returns; a failed open caches no descriptor and
\* writes nothing, so the next append opens the file itself.
C22_AuditNeverRaises ==
  [][lastOp'.op \in AppendOps =>
       /\ ~lastOp'.raised
       /\ (auditFd = Null /\ ~lastOp'.opened) =>
            (auditFd' = Null /\ auditFile' = auditFile /\ ~lastOp'.wrote)
       /\ (auditFd = Null /\ lastOp'.opened) => auditFd' # Null
       /\ auditFd # Null => (~lastOp'.opened /\ auditFd' = auditFd)
       /\ ~lastOp'.wrote => auditFile' = auditFile]_vars

\* an append that follows a failed open, opens the file and writes the first line
C22_Witness ==
  /\ lastOp.op = "logOutboundAudit"
  /\ lastOp.afterFailedOpen
  /\ lastOp.opened
  /\ lastOp.wrote
  /\ ~lastOp.raised
  /\ Len(auditFile) = 1
  /\ auditFd # Null


\* ======================================================================
\* Properties of the vault and the secret store
\* ======================================================================

RECURSIVE WellFormed(_)
\* a string in which every surrogate is half of a pair
WellFormed(s) ==
  IF s = <<>>
    THEN TRUE
    ELSE IF Head(s) = "H"
           THEN Len(s) >= 2 /\ s[2] = "L" /\ WellFormed(Tail(Tail(s)))
           ELSE Head(s) # "L" /\ WellFormed(Tail(s))

\* the blob is salt(16), iv(12), authTag(16), then a ciphertext as long as the
\* encoded plaintext
LaidOut(blob, plaintext) ==
  /\ Len(blob) >= 3
  /\ blob[1].kind = "salt" /\ blob[1].n = 16
  /\ blob[2].kind = "iv" /\ blob[2].n = 12
  /\ blob[3].kind = "tag" /\ blob[3].n = 16
  /\ \A i \in 4..Len(blob) : blob[i].kind = "ct"
  /\ BufferLength(blob) = 44 + Len(Utf8Encode(plaintext))

\* a decryptContent of an unaltered blob with the passphrase that encrypted it
Reopened(op) ==
  /\ op.op = "decryptContent"
  /\ op.altered = Null
  /\ op.passphrase = op.sealedWith

\* C23 as stated: for every plaintext string and every passphrase,
\* decryptContent(encryptContent(plaintext, p), p) returns plaintext exactly,
\* and the blob is salt(16), iv(12), authTag(16), ciphertext.
C23_Original ==
  [][/\ lastOp'.op = "encryptContent" => LaidOut(lastOp'.ret, lastOp'.plaintext)
     /\ Reopened(lastOp') => lastOp'.ret = [threw |-> FALSE, value |-> lastOp'.plaintext]
    ]_vars

\* C23: for every plaintext string without an unpaired surrogate (the empty
\* string included) and every passphrase,
\* decryptContent(encryptContent(plaintext, p), p) returns plaintext exactly;
\* an unpaired surrogate comes back as U+FFFD; the blob is salt(16), iv(12),
\* authTag(16), ciphertext for every plaintext.
C23_RoundTrip ==
  [][/\ lastOp'.op = "encryptContent" => LaidOut(lastOp'.ret, lastOp'.plaintext)
     /\ Reopened(lastOp') /\ WellFormed(lastOp'.plaintext) =>
          lastOp'.ret = [threw |-> FALSE, value |-> lastOp'.plaintext]
     /\ Reopened(lastOp') =>
          /\ ~lastOp'.ret.threw
          /\ Len(lastOp'.ret.value) = Len(lastOp'.plaintext)
          /\ \A i \in 1..Len(lastOp'.plaintext) :
               lastOp'.ret.value[i] \in {lastOp'.plaintext[i], "R"}
    ]_vars

\* a surrogate pair sealed and read back under the same passphrase
C23_Witness ==
  /\ Reopened(lastOp)
  /\ lastOp.plaintext = <<"H", "L">>
  /\ lastOp.ret = [threw |-> FALSE, value |-> <<"H", "L">>]


\* blob is what encryptContent returns for some plaintext under passphrase p
SealedBy(blob, p) ==
  /\ Len(blob) >= 3
  /\ blob[1].kind = "salt"
  /\ blob[2].kind = "iv"
  /\ blob[3].kind = "tag"
  /\ blob = EncryptContent(Utf8Decode(blob[3].data), p, blob[1].data, blob[2].data)

\* a step in which decryptContent ran on the blob read from the vault
DecryptRan(op) ==
  /\ op.op \in {"loadSoulContent", "decryptSoulToMemory"}
  /\ op.vault # Null
  /\ op.decrypted # Null

\* the passphrase a call handed to decryptContent
PassphraseOf(op) ==
  IF op.op = "loadSoulContent" THEN Val(op.passphrase) ELSE op.passphrase

\* C24: decryptContent raises, and returns no string, for a blob shorter than
\* 44 bytes, for a passphrase other than the one that encrypted the blob and
\* for a blob whose salt, iv, tag or ciphertext was altered; loadSoulContent
\* then returns null; what decryptContent does return is the plaintext that
\* was encrypted.
C24_DecryptFailsClosed ==
  [][DecryptRan(lastOp') =>
       LET blob == Val(lastOp'.vault)
           p == PassphraseOf(lastOp')
           result == Val(lastOp'.decrypted)
       IN /\ (BufferLength(blob) < 44 \/ ~SealedBy(blob, p)) =>
               /\ result = [threw |-> TRUE, value |-> <<>>]
               /\ lastOp'.op = "loadSoulContent" => lastOp'.ret = Null
          /\ ~result.threw =>
               /\ SealedBy(blob, p)
               /\ Utf8Encode(result.value) = blob[3].data
    ]_vars

\* a load that found the tag of the blob altered and returned null
C24_Witness ==
  /\ lastOp.op = "loadSoulContent"
  /\ lastOp.vault # Null
  /\ Len(Val(lastOp.vault)) >= 3
  /\ Val(lastOp.vault)[3].kind = "cut"
  /\ lastOp.decrypted = Some([threw |-> TRUE, value |-> <<>>])
  /\ lastOp.ret = Null


\* a loadSoulContent on first run: a passphrase, no blob, a readable plaintext
FirstRun(op) ==
  /\ op.op = "loadSoulContent"
  /\ op.passphrase # Null
  /\ op.vault = Null
  /\ files[PlaintextPath] # Null

\* C25: on first run (no encrypted blob, a readable plaintext source and a
\* passphrase) loadSoulContent encrypts the plaintext into the vault and then
\* overwrites the plaintext source with zeros and deletes it; when the
\* encryption or the erase fails the call still returns the document content
\* with source "plaintext", and nothing is erased that was not encrypted.
C25_FirstRunEncryptsThenErases ==
  [][FirstRun(lastOp') =>
       LET source == Val(files[PlaintextPath])
           content == Utf8Decode(BufferBytes(source))
       IN /\ lastOp'.ret = Some([content |-> content, source |-> "plaintext"])
          /\ files'[EncPath] # Null =>
               /\ SealedBy(Val(files'[EncPath]), Val(lastOp'.passphrase))
               /\ DecryptContent(Val(files'[EncPath]), Val(lastOp'.passphrase)).value = content
          /\ files'[PlaintextPath] \in
               {files[PlaintextPath], Null,
                Some(RawBuffer([i \in 1..BufferLength(source) |-> "00"]))}
          /\ files'[PlaintextPath] # files[PlaintextPath] => files'[EncPath] # Null
          /\ lastOp'.encrypted /\ lastOp'.erased = "deleted" =>
               files'[EncPath] # Null /\ files'[PlaintextPath] = Null
          /\ lastOp'.encrypted <=> files'[EncPath] # Null
    ]_vars

\* a first run that encrypted the document and erased the plaintext source
C25_Witness ==
  /\ lastOp.op = "loadSoulContent"
  /\ lastOp.vault = Null
  /\ lastOp.passphrase = Some("p1")
  /\ lastOp.encrypted
  /\ lastOp.erased = "deleted"
  /\ lastOp.ret = Some([content |-> <<"a", "a">>, source |-> "plaintext"])
  /\ files[PlaintextPath] = Null
  /\ files[EncPath] # Null
  /\ SealedBy(Val(files[EncPath]), "p1")


\* a blob as encryptContent returned it, under some passphrase
Intact(blob) == \E p \in PassphraseInputs : SealedBy(blob, p)

\* C26: the passphrase is read from the environment on every operation and
\* nothing derived from an earlier passphrase is reused: a loadSoulContent
\* that finds a passphrase and an unaltered blob returns what that passphrase
\* yields on that blob, the content it decrypts to or null when it does not
\* decrypt, also when an earlier call already decrypted the document.
C26_ResultFollowsCurrentPassphrase ==
  [][/\ lastOp'.op = "loadSoulContent"
     /\ lastOp'.passphrase # Null
     /\ lastOp'.vault # Null
     /\ Intact(Val(lastOp'.vault))
     => LET yields == DecryptContent(Val(lastOp'.vault), Val(lastOp'.passphrase))
        IN /\ lastOp'.passphrase \in {env, env'}
           /\ lastOp'.ret = IF yields.threw
                              THEN Null
                              ELSE Some([content |-> yields.value, source |-> "vault"])
    ]_vars


\* the process ended on a path that ran the cleanup handler
CleanupRan(op) == op.op = "exit" /\ op.handlerRuns > 0

\* C27: the exit, SIGINT and SIGTERM handlers are registered exactly once
\* however many times decryptSoulToMemory runs, and after the cleanup handler
\* has run on an exit path, its file operations succeeding, the cached
\* plaintext is dropped, no mirror file is left (the one it found was
\* overwritten and deleted) and no mirror path is recorded.
C27_CleanupLeavesNothing ==
  /\ [](\A e \in ProcessEvents :
          /\ listeners[e] <= 1
          /\ shutdownHooksRegistered => listeners[e] = 1)
  /\ [][CleanupRan(lastOp') /\ lastOp'.wiped.fault = "ok" =>
          /\ decryptedSoulContent' = Null
          /\ shmCleanupPath' = Null
          /\ files'[ShmPath] = Null
          /\ lastOp'.wiped.mirror # Null /\ files[ShmPath] # Null =>
               lastOp'.wiped.overwritten /\ lastOp'.wiped.deleted
       ]_vars


\* a loadTotpSecret that follows a saveTotpSecret of s at once
LoadsSaved(op) == op.op = "loadTotpSecret" /\ op.saved # Null

\* what saveTotpSecret writes: one file, the encrypted one exactly when a
\* passphrase is configured
OneFileWritten ==
  /\ files'[IF lastOp'.passphrase # Null THEN SecretPath ELSE SecretPlaintextPath] # Null
  /\ \A f \in FilePaths :
       f # (IF lastOp'.passphrase # Null THEN SecretPath ELSE SecretPlaintextPath)
         => files'[f] = files[f]
  /\ lastOp'.passphrase # Null => Intact(Val(files'[SecretPath]))
  /\ lastOp'.passphrase = Null =>
       \A i \in DOMAIN Val(files'[SecretPlaintextPath]) :
         Val(files'[SecretPlaintextPath])[i].kind = "raw"

\* C28 as stated: with a passphrase saveTotpSecret(s) writes only the encrypted
\* file, without one only the plaintext file, and in both cases a following
\* loadTotpSecret returns s; loadTotpSecret returns null when neither file
\* can be read.
C28_Original ==
  [][/\ lastOp'.op = "saveTotpSecret" => OneFileWritten
     /\ LoadsSaved(lastOp') /\ lastOp'.enc = files[SecretPath]
                            /\ lastOp'.plain = files[SecretPlaintextPath]
          => lastOp'.ret = lastOp'.saved
     /\ lastOp'.op = "loadTotpSecret" /\ lastOp'.enc = Null /\ lastOp'.plain = Null
          => lastOp'.ret = Null
    ]_vars

\* C28: with a passphrase saveTotpSecret(s) writes only the encrypted file,
\* without one only the plaintext file; a following loadTotpSecret under the
\* same passphrase configuration returns s when s has no unpaired surrogate
\* and, without a passphrase, no white space at its ends: the plaintext file
\* is read back trimmed; loadTotpSecret returns null when neither file can be
\* read.
C28_StoreRoundTrip ==
  [][/\ lastOp'.op = "saveTotpSecret" => OneFileWritten
     /\ LoadsSaved(lastOp') /\ lastOp'.enc = files[SecretPath]
                            /\ lastOp'.plain = files[SecretPlaintextPath]
          => LET s == Val(lastOp'.saved)
             IN /\ WellFormed(s) /\ (lastOp'.passphrase # Null \/ Trim(s) = s)
                     => lastOp'.ret = Some(s)
                /\ WellFormed(s) /\ lastOp'.passphrase = Null
                     => lastOp'.ret = Some(Trim(s))
     /\ lastOp'.op = "loadTotpSecret" /\ lastOp'.enc = Null /\ lastOp'.plain = Null
          => lastOp'.ret = Null
    ]_vars

\* a secret saved under a passphrase and loaded while an older plaintext file
\* of another secret exists
C28_Witness ==
  /\ LoadsSaved(lastOp)
  /\ lastOp.passphrase = Some("p1")
  /\ lastOp.saved = Some(<<"a", "a">>)
  /\ lastOp.ret = Some(<<"a", "a">>)
  /\ lastOp.plain = Some(<<[kind |-> "raw", key |-> <<>>, iv |-> <<>>,
                            data |-> <<"61">>, n |-> 1]>>)


\* ======================================================================
\* Properties of the chat commands
\* ======================================================================

\* the secret in the store
EnrolledSecret ==
  LoadTotpSecretRet(ResolvePassphrase(env), files[SecretPath], files[SecretPlaintextPath])

\* code is the six digits that the enrolled key gives for the time step of t,
\* the one before or the one behind
Verifies(code, t) ==
  /\ EnrolledSecret # Null
  /\ code.length = 6
  /\ code.digits
  /\ code.of[1] = Val(EnrolledSecret)
  /\ code.of[2] \in (Counter(Epoch + t) - 1)..(Counter(Epoch + t) + 1)

\* a handleTotpCodeInput that got as far as verifying the code
ReachedVerification(op) ==
  /\ op.allowTextCommands
  /\ op.isAuthorizedSender
  /\ op.cfg.approvalMode = Some("totp")
  /\ op.body.length = 6 /\ op.body.digits
  /\ EnrolledSecret # Null

\* C29: submitting a code that does not verify (wrong or expired) is rejected
\* explicitly, with the reply "Invalid code", and mutates no state: the
\* approval window and the waiter queue are as before, no waiter is settled,
\* no audit entry is appended.
C29_BadCodeChangesNothing ==
  [][lastOp'.op = "handleTotpCodeInput" /\ ~Verifies(lastOp'.body, now) =>
       /\ activeWindow' = activeWindow
       /\ pendingResolvers' = pendingResolvers
       /\ entries' = entries
       /\ auditCalls' = auditCalls
       /\ auditFile' = auditFile
       /\ lastOp'.ret # "approved"
       /\ ReachedVerification(lastOp') => lastOp'.ret = "invalid"
    ]_vars

\* an expired code of the enrolled key sent while a waiter is queued
C29_Witness ==
  /\ lastOp.op = "handleTotpCodeInput"
  /\ lastOp.ret = "invalid"
  /\ lastOp.body.of = <<<<"a">>, 2>>
  /\ lastOp.secret = Some(<<"a">>)
  /\ now >= 60000
  /\ pendingResolvers # <<>>


\* ======================================================================
\* Properties of the soul integrity check
\* ======================================================================

\* C30: once a hash of the protected document has been recorded for a
\* workspace, every later session of that workspace whose document content
\* differs from the recorded content is refused, for any changed content:
\* resolveBootstrapFilesForRun throws and returns no bootstrap files.
C30_ChangedContentRefused ==
  [][/\ lastOp'.op = "resolveBootstrapFilesForRun"
     /\ lastOp'.soul # Null
     /\ ~Val(lastOp'.soul).missing
     /\ Val(lastOp'.soul).content # Null
     /\ NormalizeKey(lastOp'.workspaceDir) \in DOMAIN storedSoulHashes
     /\ storedSoulHashes[NormalizeKey(lastOp'.workspaceDir)]
          # <<"sha256">> \o Utf8Encode(Val(Val(lastOp'.soul).content))
     => /\ lastOp'.threw
        /\ lastOp'.ret = Null
        /\ storedSoulHashes' = storedSoulHashes
    ]_vars


\* ------------------------------------------------------------ C31
\* what the claim says verifyTotpCode(secret, code, {window, timeMs}) returns:
\* true exactly when the trimmed code is six digits and is the code of the
\* secret for timeMs + i * 30000 with some i in [-window, window]
ClaimedVerify(secret, code, window, timeMs) ==
  /\ TrimCode(code).length = TOTP_DIGITS
  /\ TrimCode(code).digits
  /\ \E i \in (0 - window)..window :
       TrimCode(code) = GenerateTotpCode(secret, timeMs + i * TOTP_STEP_SECONDS * 1000)

\* C31: for every secret that base32Decode accepts, every time t and window w,
\* verifyTotpCode returns true exactly when the trimmed code is six digits and
\* equals generateTotpCode(secret, t + i * 30000) for some i in [-w, w], and
\* false otherwise; generateTotpCode returns a code of six digits that is the
\* same for all times of one 30-second step.
C31_VerifyIsGenerateWithinWindow ==
  /\ lastOp.op = "verifyTotpCode" /\ ~Base32DecodeThrows(lastOp.secret)
       => lastOp.ret = IF ClaimedVerify(lastOp.secret, lastOp.code, lastOp.window,
                                        lastOp.timeMs)
                         THEN "true" ELSE "false"
  /\ lastOp.op = "generateTotpCode" /\ ~Base32DecodeThrows(lastOp.secret)
       => /\ ~lastOp.ret.threw
          /\ lastOp.ret.value.length = TOTP_DIGITS
          /\ lastOp.ret.value.digits
          /\ \A t \in TimeInputs :
               Counter(t) = Counter(lastOp.timeMs)
                 => lastOp.ret.value = GenerateTotpCode(lastOp.secret, t)

\* the same for the calls whose earliest offset time is not before time 0
C31_FromTheWindowOn ==
  lastOp.op = "verifyTotpCode" /\ ~Base32DecodeThrows(lastOp.secret)
    /\ lastOp.timeMs >= lastOp.window * TOTP_STEP_SECONDS * 1000
    => lastOp.ret = IF ClaimedVerify(lastOp.secret, lastOp.code, lastOp.window,
                                     lastOp.timeMs)
                      THEN "true" ELSE "false"

\* a code generated at t >= 30000 was verified at t with window 1
C31_Witness ==
  /\ lastOp.op = "verifyTotpCode"
  /\ lastOp.window = 1
  /\ lastOp.timeMs >= TOTP_STEP_SECONDS * 1000
  /\ lastOp.code = GenerateTotpCode(lastOp.secret, lastOp.timeMs)
  /\ lastOp.ret = "true"


\* ------------------------------------------------------------ C32
AppendCalled == lastOp'.op = "appendWatchTranscript"

\* the file of the account of the call
CalledFile == TranscriptFile(lastOp'.accountId)

\* the line that the call left at the end of the file of its account, parsed
ParsedLast == JsonParse(transcripts'[CalledFile][Len(transcripts'[CalledFile])])

\* C32, as stated: every call of appendWatchTranscript adds one line to the
\* end of the file of its account, whose body is the body of the entry without
\* its control characters, and changes no earlier line and no other file; so n
\* calls for one account leave n lines in call order.
C32_Original ==
  [][AppendCalled =>
       /\ Len(transcripts'[CalledFile]) = Len(transcripts[CalledFile]) + 1
       /\ SubSeq(transcripts'[CalledFile], 1, Len(transcripts[CalledFile]))
            = transcripts[CalledFile]
       /\ ParsedLast.body = RemoveControl(lastOp'.entry.body)
       /\ \A f \in TranscriptFiles \ {CalledFile} : transcripts'[f] = transcripts[f]]_vars

\* C32, amended: a call whose append succeeds adds one line to the end of the
\* file that its account id maps to; the line has no line feed inside and holds
\* the entry with channel "whatsapp", with the first MAX_BODY_LENGTH characters
\* of the body without their control characters, with chatName, senderName and
\* quotedMessage cut and cleaned the same way and left out when nothing
\* remains, and with the other fields unchanged; a call whose append or mkdir
\* fails changes no file; no call changes an earlier line or another file.
C32_SuccessfulAppendsInOrder ==
  [][AppendCalled =>
       /\ \A f \in TranscriptFiles \ {CalledFile} : transcripts'[f] = transcripts[f]
       /\ ~lastOp'.wrote => transcripts'[CalledFile] = transcripts[CalledFile]
       /\ lastOp'.wrote =>
            LET entry == lastOp'.entry
                line == transcripts'[CalledFile][Len(transcripts'[CalledFile])]
                Clean(o) ==
                  IF o = Null \/ RemoveControl(Slice(Val(o), MAX_BODY_LENGTH)) = EmptyText
                    THEN Null
                    ELSE Some(RemoveControl(Slice(Val(o), MAX_BODY_LENGTH)))
            IN /\ Len(transcripts'[CalledFile]) = Len(transcripts[CalledFile]) + 1
               /\ SubSeq(transcripts'[CalledFile], 1, Len(transcripts[CalledFile]))
                    = transcripts[CalledFile]
               /\ \A i \in DOMAIN line.body.rest : line.body.rest[i] # "n"
               /\ ParsedLast =
                    [entry EXCEPT !.channel = "whatsapp",
                                  !.body = RemoveControl(Slice(@, MAX_BODY_LENGTH)),
                                  !.chatName = Clean(@),
                                  !.senderName = Clean(@),
                                  !.quotedMessage = Clean(@)]]_vars

\* a second line was appended to a file, for an entry whose body is longer
\* than MAX_BODY_LENGTH and has a control character before the cut, after a
\* line written for another account id
C32_Witness ==
  /\ lastOp.op = "appendWatchTranscript"
  /\ lastOp.wrote
  /\ lastOp.accountId = <<"a", ".", "a">>
  /\ lastOp.entry.body = Text(MAX_BODY_LENGTH - 2, <<"c", "a", "a">>)
  /\ Len(transcripts[TranscriptFile(lastOp.accountId)]) = 2
  /\ transcripts[TranscriptFile(<<"a">>)] # <<>>


\* ------------------------------------------------------------ C33
\* C33: between operations the pending array holds each of its waiters once,
\* and only waiters that are unsettled and whose deadline timer is armed; a
\* settled waiter is out of the array and its timer is cleared or has fired;
\* and no deadline callback runs for a waiter that was settled before.
C33_QueueHoldsArmedUnsettled ==
  /\ [](/\ \A i, j \in DOMAIN pendingResolvers :
             pendingResolvers[i] = pendingResolvers[j] => i = j
        /\ \A w \in Queued : ~entries[w].settled /\ entries[w].timer = "armed"
        /\ \A w \in Waiters :
             entries[w].settled
               => w \notin Queued /\ entries[w].timer \in {"cleared", "fired"})
  /\ [][lastOp'.op = "deadline"
          => /\ ~entries[lastOp'.waiter].settled
             /\ lastOp'.waiter \in Queued
             /\ entries'[lastOp'.waiter].calls = <<FALSE>>]_vars

\* one waiter was settled by its deadline, another by a call, and nothing is
\* queued
C33_Witness ==
  /\ Queued = {}
  /\ \E v, w \in Waiters :
       /\ entries[v].timer = "fired" /\ entries[v].settled
       /\ entries[w].timer = "cleared" /\ entries[w].settled


\* ------------------------------------------------------------ C34
\* an authorized /totp-lock leaves no window, and a window only comes into
\* being by a code that handleTotpCodeInput accepts
LockedUntilAccepted ==
  /\ [][lastOp'.op = "handleTotpLockCommand" /\ lastOp'.ret = "closed"
          => /\ activeWindow' = Null
             /\ \A a \in ActionNames : ~IsActionApprovedRet(a)']_vars
  /\ [][activeWindow' # Null /\ activeWindow' # activeWindow
          => lastOp'.op = "handleTotpCodeInput" /\ lastOp'.ret = "approved"]_vars

\* a code accepted before is not accepted in the message that follows an
\* authorized /totp-lock
NoReplayAfterLock ==
  [][(/\ lastOp.op = "handleTotpLockCommand"
       /\ lastOp.ret = "closed"
       /\ lastOp'.op = "handleTotpCodeInput"
       /\ TrimCode(lastOp'.body) \in acceptedCodes)
      => lastOp'.ret # "approved"]_vars

\* C34: after an authorized /totp-lock isActionApproved is false for every
\* action until a later code submission is accepted, and a code that opened a
\* window before the lock is not accepted again to open a new window.
C34_FreshCodeAfterLock == LockedUntilAccepted /\ NoReplayAfterLock


\* ------------------------------------------------------------ C35
\* the timestamps recorded for the bucket of the flows
FlowRecorded == BucketsGet(BucketKey(FlowChannel, Null))

\* the number of recorded sends in the span of windowMs that ends at t
RecordedWithin(windowMs, t) ==
  Cardinality({i \in DOMAIN FlowRecorded :
                 FlowRecorded[i] > t - windowMs /\ FlowRecorded[i] <= t})

\* C35: when every flow calls checkRateLimit and calls recordMessage only
\* after an allowed result, the sends recorded for one key within any span of
\* 60 seconds are at most maxPerMinute and within any hour at most maxPerHour,
\* also when flows are suspended between check and record and interleave.
\* (a span that holds the most sends can be taken to end at one of them)
C35_RecordedWithinLimits ==
  \A t \in Range(FlowRecorded) :
    /\ RecordedWithin(ONE_MINUTE_MS, t) <= FlowLimits.maxPerMinute
    /\ RecordedWithin(ONE_HOUR_MS, t) <= FlowLimits.maxPerHour


\* ------------------------------------------------------------ C36
\* C36: a waiter is resolved true only in a step after which isActionApproved
\* of its action is true; so startApprovalWindow with durationMinutes of zero
\* or less, whose window has expired when it is created, resolves no waiter
\* true.
C36_TrueOnlyWhileApproved ==
  [][\A w \in Waiters :
       entries[w].calls = <<>> /\ entries'[w].calls = <<TRUE>>
         => IsActionApprovedRet(entries[w].action)']_vars


\* ------------------------------------------------------------ C37
\* what a load may return of the secret s that was saved: s as its UTF-8
\* bytes decode, or that string trimmed (the plaintext file is read trimmed)
ReadBackOf(s) ==
  {Utf8Decode(Utf8Encode(s)), Trim(Utf8Decode(Utf8Encode(s)))}

\* C37: a secret that loadTotpSecret returns, when it can read the files that
\* exist, is the one given to the most recent saveTotpSecret, never an older
\* one, whatever was done to the passphrase variable between the calls.
C37_LoadReturnsLatestSave ==
  [][(/\ lastOp'.op = "loadTotpSecret"
      /\ lastOp'.enc = files[SecretPath]
      /\ lastOp'.plain = files[SecretPlaintextPath]
      /\ lastOp'.ret # Null
      /\ lastSaved # Null)
       => Val(lastOp'.ret) \in ReadBackOf(Val(lastSaved))]_vars


\* ------------------------------------------------------------ C38
\* the document that the plaintext source holds in the files fs, if any
PlainDocument(fs) ==
  IF fs[PlaintextPath] = Null
    THEN {}
    ELSE {Utf8Decode(BufferBytes(Val(fs[PlaintextPath])))}

\* the document that the encrypted blob holds in the files fs, if any: what
\* it decrypts to under the passphrase that sealed it
BlobDocument(fs) ==
  IF fs[EncPath] = Null
    THEN {}
    ELSE {DecryptContent(Val(fs[EncPath]), p).value :
            p \in {q \in PassphraseInputs : SealedBy(Val(fs[EncPath]), q)}}

VerifyCalled == lastOp'.op = "verifySoulIntegrity"

\* a verifySoulIntegrity call writes the hash of its workspace only when none
\* is stored and never changes one; what was refused before the call is
\* refused after it
VerifyKeepsStoredHashes ==
  [][VerifyCalled =>
       LET key == NormalizeKey(lastOp'.workspaceDir)
       IN /\ \A k \in DOMAIN storedSoulHashes :
               k \in DOMAIN storedSoulHashes' /\ storedSoulHashes'[k] = storedSoulHashes[k]
          /\ DOMAIN storedSoulHashes' \subseteq DOMAIN storedSoulHashes \cup {key}
          /\ key \notin DOMAIN storedSoulHashes
               => storedSoulHashes'[key] = ComputeSoulHash(lastOp'.content)
          /\ lastOp'.ok <=> (key \in DOMAIN storedSoulHashes
                               => storedSoulHashes[key] = ComputeSoulHash(lastOp'.content))
          /\ \A c \in SoulContentInputs, w \in WorkspaceInputs :
               ~VerifySoulIntegrityOk(c, w) => ~VerifySoulIntegrityOk(c, w)']_vars

\* C39, as stated: verifySoulIntegrity writes a stored hash only when none is
\* stored and never changes one, so refused content stays refused until
\* clearStoredSoulHash or storeSoulHash is called, and a verification for one
\* workspace directory never changes the result for another workspace
\* directory.
C39_Original ==
  /\ VerifyKeepsStoredHashes
  /\ [][VerifyCalled =>
          \A c \in SoulContentInputs, w \in WorkspaceInputs \ {lastOp'.workspaceDir} :
            VerifySoulIntegrityOk(c, w)' = VerifySoulIntegrityOk(c, w)]_vars

\* C39, amended: the same, the last part for workspace directories with
\* different keys: directories that differ only in the white space around
\* them share one stored hash, and so do all blank or missing ones.
C39_VerifyChangesOnlyItsKey ==
  /\ VerifyKeepsStoredHashes
  /\ [][VerifyCalled =>
          \A c \in SoulContentInputs, w \in WorkspaceInputs :
            NormalizeKey(w) # NormalizeKey(lastOp'.workspaceDir)
              => VerifySoulIntegrityOk(c, w)' = VerifySoulIntegrityOk(c, w)]_vars

\* content was refused twice in a row for a workspace while another workspace
\* has its own stored hash
C39_Witness ==
  /\ lastOp.op = "verifySoulIntegrity"
  /\ ~lastOp.ok
  /\ lastOp.again
  /\ Cardinality(DOMAIN storedSoulHashes) >= 2


\* ------------------------------------------------------------ C40
CommandHandled == lastOp'.op \in {"handleTotpCodeInput", "handleTotpLockCommand"}

\* the window, the waiters and the pending array
WindowState == <<activeWindow, entries, pendingResolvers>>

\* C40: the command handlers change the approval window and the waiters only
\* for an authorized sender: handleTotpCodeInput opens a window only if the
\* sender is authorized, approvalMode is "totp", a secret is stored and the
\* code verifies against it; handleTotpLockCommand closes the window only if
\* the sender is authorized; a message from another sender leaves the window
\* and the pending array as they were.
C40_OnlyAuthorizedSendersChangeWindow ==
  [][CommandHandled =>
       /\ ~lastOp'.isAuthorizedSender => WindowState' = WindowState
       /\ lastOp'.op = "handleTotpCodeInput"
            /\ (WindowState' # WindowState \/ lastOp'.ret = "approved")
            => /\ lastOp'.isAuthorizedSender
               /\ lastOp'.cfg.approvalMode = Some("totp")
               /\ EnrolledSecret # Null
               /\ Verifies(lastOp'.body, now)
               /\ activeWindow' # Null
       /\ lastOp'.op = "handleTotpLockCommand"
            /\ (WindowState' # WindowState \/ lastOp'.ret = "closed")
            => /\ lastOp'.isAuthorizedSender
               /\ activeWindow' = Null
               /\ pendingResolvers' = <<>>]_vars

\* /totp-lock from a sender who is not authorized, while a window is open
C40_Witness ==
  /\ lastOp.op = "handleTotpLockCommand"
  /\ ~lastOp.isAuthorizedSender
  /\ lastOp.ret = "stop"
  /\ activeWindow # Null

====
